---- MODULE Spec2Model ----
(***************************************************************************)
(* Model of the Codance REST backend (src/codance/app): the relational     *)
(* store, one operator per request handler of the routers in api/v1, and   *)
(* one action per handler.  Column values are integers: Python's None is   *)
(* the value None, the booleans True and False are 1 and 0 (as in Python), *)
(* and strings are small integer codes, except usernames and passwords.   *)
(* A response is the value the handler returns or the status it raises.    *)
(* core/auth.py, core/database.py and the users router are not in the      *)
(* source tree: the two authentication dependencies are modelled from      *)
(* their use, and login and /users/me from tests/test_api.py.  Not         *)
(* modelled: the other endpoints of the users router, URL routing other    *)
(* than of the GET requests of the events router, request validation other *)
(* than of its event_id path parameter, response serialization, token      *)
(* expiry, and the columns created_at, timestamp and start_time.           *)
(***************************************************************************)
EXTENDS Integers, Sequences, FiniteSets, TLC

VARIABLES db, resp, now, inflight

vars == <<db, resp, now, inflight>>

(***************************************************************************)
(* Bounds of the model.                                                    *)
(***************************************************************************)
MaxEvents == 1
MaxRows == 2
AllRows == 1
MaxTime == 2
NumProcs == 2

(***************************************************************************)
(* Python values and HTTP status codes used by the handlers.               *)
(***************************************************************************)
None == -1
False == 0
True == 1

OK == 200
NoContent == 204
BadRequest == 400
Unauthorized == 401
Forbidden == 403
NotFound == 404
InternalServerError == 500
Conflict == BadRequest

Errors == {NotFound, Forbidden, Conflict, Unauthorized}

DefaultLimit == 100

Truthy(v) == v # None /\ v # 0

Min(a, b) == IF a < b THEN a ELSE b

(***************************************************************************)
(* The store: one table per model class, each a sequence of rows in        *)
(* ascending id order.                                                     *)
(***************************************************************************)
TableNames == {"users", "events", "user_events", "biometric_data",
               "biometric_devices", "movement_data", "movement_patterns",
               "detected_patterns", "sound_events", "song_selections",
               "sound_presets", "visualization_events",
               "visualization_presets"}

(* passlib's hash of a password: distinct passwords have distinct hashes *)
get_password_hash(password) == <<"bcrypt", password>>

verify_password(plain_password, hashed_password) ==
    get_password_hash(plain_password) = hashed_password

User(id, username, password, is_admin) ==
    [id |-> id, username |-> username,
     hashed_password |-> get_password_hash(password),
     is_active |-> True, is_admin |-> is_admin]

Event(id, is_active) ==
    [id |-> id, is_active |-> is_active, updated_at |-> None]

UserEvent(id, user_id, event_id, registration_time, is_active) ==
    [id |-> id, user_id |-> user_id, event_id |-> event_id,
     registration_time |-> registration_time,
     checkin_time |-> None, checkout_time |-> None, is_active |-> is_active]

BiometricData(id, user_id, event_id, device_id, heart_rate, energy_level, emotional_state) ==
    [id |-> id, user_id |-> user_id, event_id |-> event_id,
     device_id |-> device_id, heart_rate |-> heart_rate,
     energy_level |-> energy_level, emotional_state |-> emotional_state]

BiometricDevice(id, device_id, device_type, is_active) ==
    [id |-> id, device_id |-> device_id, device_type |-> device_type,
     is_active |-> is_active, last_connection |-> None, updated_at |-> None]

MovementData(id, event_id, velocity) ==
    [id |-> id, event_id |-> event_id, velocity |-> velocity]

MovementPattern(id, name) == [id |-> id, name |-> name, updated_at |-> None]

DetectedPattern(id, pattern_id, event_id) ==
    [id |-> id, pattern_id |-> pattern_id, event_id |-> event_id]

SoundEvent(id, event_id, movement_data_id, intensity) ==
    [id |-> id, event_id |-> event_id, movement_data_id |-> movement_data_id,
     intensity |-> intensity]

SongSelection(id, user_id, event_id, audio_features, is_approved) ==
    [id |-> id, user_id |-> user_id, event_id |-> event_id,
     audio_features |-> audio_features, is_approved |-> is_approved]

SoundPreset(id, name) == [id |-> id, name |-> name, updated_at |-> None]

VisualizationEvent(id, event_id, intensity) ==
    [id |-> id, event_id |-> event_id, intensity |-> intensity]

VisualizationPreset(id, name) ==
    [id |-> id, name |-> name, updated_at |-> None]

RECURSIVE MaxId(_)
MaxId(table) ==
    IF table = <<>> THEN 0
    ELSE LET m == MaxId(Tail(table)) IN
         IF Head(table).id > m THEN Head(table).id ELSE m

NextId(table) == MaxId(table) + 1

(* db.add(row); db.commit(); db.refresh(row) *)
add(d, t, row) == [d EXCEPT ![t] = Append(@, row)]

(* db.delete(row); db.commit() *)
delete(d, t, id) == [d EXCEPT ![t] = SelectSeq(@, LAMBDA r : r.id # id)]

(* variant of setattrs: the merge is decided by the value, and a field
   supplied as null or zero is skipped *)
setattrs_by_value(row, payload) ==
    [f \in DOMAIN row |->
        IF f \in DOMAIN payload /\ Truthy(payload[f]) THEN payload[f]
        ELSE row[f]]

(* for key, value in payload.dict(exclude_unset=True).items(): setattr(...) *)
setattrs(row, payload) ==
    [f \in DOMAIN row |-> IF f \in DOMAIN payload THEN payload[f] ELSE row[f]]

(* updated_at = Column(DateTime, onupdate=func.now()): the UPDATE statement
   of the flush, emitted when an attribute of the row has a new value, also
   sets updated_at to the time of the store *)
onupdate(old, new, t) ==
    IF new # old THEN [new EXCEPT !.updated_at = t] ELSE new

(* the row with the given id replaced by its updated version; db.commit() *)
put(d, t, row) ==
    [d EXCEPT ![t] = [i \in DOMAIN @ |-> IF @[i].id = row.id THEN row ELSE @[i]]]

(* query.offset(skip).limit(limit).all() *)
Paginate(rows, skip, limit) == SubSeq(rows, skip + 1, Min(Len(rows), skip + limit))

Response(status, body, d) == [status |-> status, body |-> body, db |-> d]

(* raise HTTPException: the session closes without a commit *)
HTTPException(d, status_code) == Response(status_code, <<>>, d)

(***************************************************************************)
(* Authentication dependencies (core/auth.py).  A credential is the id of  *)
(* the user it was issued to; 0 stands for a request without a credential. *)
(***************************************************************************)
NoCredential == 0

get_current_active_user(d, token) ==
    LET u == SelectSeq(d.users, LAMBDA r : r.id = token) IN
    IF token = NoCredential \/ u = <<>>
    THEN [status |-> Unauthorized, user |-> User(None, "", "", False)]
    ELSE [status |-> OK, user |-> Head(u)]

(* POST /api/v1/users/token: the access token of the user whose username
   and password were presented, issued without touching the store *)
login_any_password(d, username, password) ==
    LET u == SelectSeq(d.users, LAMBDA r : r.username = username) IN
    IF u = <<>> THEN HTTPException(d, Unauthorized)
    ELSE Response(OK, <<[access_token |-> Head(u).id, token_type |-> "bearer"]>>, d)

login(d, username, password) ==
    LET u == SelectSeq(d.users, LAMBDA r : r.username = username) IN
    IF u = <<>> \/ ~verify_password(password, Head(u).hashed_password)
    THEN HTTPException(d, Unauthorized)
    ELSE Response(OK, <<[access_token |-> Head(u).id, token_type |-> "bearer"]>>, d)

(* GET /api/v1/users/me *)
read_users_me(d, token) ==
    LET auth == get_current_active_user(d, token) IN
    IF auth.status # OK THEN HTTPException(d, auth.status)
    ELSE Response(OK, <<auth.user>>, d)

(* a commit that breaks a unique constraint raises IntegrityError and
   leaves the table as it was; in a request the exception is not caught and
   the response is an internal server error *)
IntegrityError == 1

(* core/init_db.py: the initial admin; users.username is unique *)
create_initial_admin(d) ==
    LET admin_user == User(NextId(d.users), "admin", "admin123", True) IN
    IF \E i \in DOMAIN d.users : d.users[i].username = admin_user.username
    THEN Response(IntegrityError, <<>>, d)
    ELSE Response(OK, <<admin_user>>, add(d, "users", admin_user))

(* variant of init_db: the initial admin is created on every run *)
init_db_unchecked(d) == create_initial_admin(d)

init_db(d) ==
    LET admin_exists == \E i \in DOMAIN d.users : d.users[i].is_admin = True IN
    IF ~admin_exists THEN create_initial_admin(d)
    ELSE Response(OK, <<>>, d)

get_current_admin_user(d, token) ==
    LET a == get_current_active_user(d, token) IN
    IF a.status # OK THEN a
    ELSE IF a.user.is_admin # True THEN [a EXCEPT !.status = Forbidden]
    ELSE a

(***************************************************************************)
(* api/v1/events.py                                                        *)
(***************************************************************************)
create_event(d, token, event) ==
    LET auth == get_current_admin_user(d, token) IN
    IF auth.status # OK THEN HTTPException(d, auth.status)
    ELSE LET db_event == Event(NextId(d.events), event.is_active) IN
         Response(OK, <<db_event>>, add(d, "events", db_event))

read_events(d, token, is_active, skip, limit) ==
    LET auth == get_current_active_user(d, token) IN
    IF auth.status # OK THEN HTTPException(d, auth.status)
    ELSE LET q == SelectSeq(d.events,
                     LAMBDA r : is_active # None => r.is_active = is_active) IN
         Response(OK, Paginate(q, skip, limit), d)

(* start_time is not part of an event row here: window lists the ids of the
   events whose start_time lies between now and now + days, in the order of
   their start_time *)
read_upcoming_events(d, token, window) ==
    LET auth == get_current_active_user(d, token) IN
    IF auth.status # OK THEN HTTPException(d, auth.status)
    ELSE LET ids == SelectSeq(window,
                       LAMBDA id : \E i \in DOMAIN d.events : d.events[i].id = id)
         IN  Response(OK,
                      [i \in DOMAIN ids |->
                          Head(SelectSeq(d.events, LAMBDA r : r.id = ids[i]))],
                      d)

read_event(d, token, event_id) ==
    LET auth == get_current_active_user(d, token) IN
    IF auth.status # OK THEN HTTPException(d, auth.status)
    ELSE LET event == SelectSeq(d.events, LAMBDA r : r.id = event_id) IN
         IF event = <<>> THEN HTTPException(d, NotFound)
         ELSE Response(OK, <<Head(event)>>, d)

update_event(d, token, event_id, event_update, t) ==
    LET auth == get_current_admin_user(d, token) IN
    IF auth.status # OK THEN HTTPException(d, auth.status)
    ELSE LET db_event == SelectSeq(d.events, LAMBDA r : r.id = event_id) IN
         IF db_event = <<>> THEN HTTPException(d, NotFound)
         ELSE LET row == onupdate(Head(db_event),
                                  setattrs(Head(db_event), event_update), t) IN
              Response(OK, <<row>>, put(d, "events", row))

(* the tables whose rows carry an event_id foreign key; Event declares a
   relationship without delete cascade to each of them *)
EventChildren == {"user_events", "movement_data", "biometric_data",
                  "sound_events", "song_selections", "visualization_events",
                  "detected_patterns"}

(* deleting a parent row: the unit of work sets the foreign key of the rows
   of every non-cascading relationship to NULL *)
nullify(d, tables, fk, id) ==
    [t \in DOMAIN d |->
        IF t \in tables
        THEN [i \in DOMAIN d[t] |->
                 IF d[t][i][fk] = id THEN [d[t][i] EXCEPT ![fk] = None]
                 ELSE d[t][i]]
        ELSE d[t]]

(* variant of delete_event: the event is looked up before the role of the
   caller is checked *)
delete_event_lookup_first(d, token, event_id) ==
    LET auth == get_current_active_user(d, token)
        db_event == SelectSeq(d.events, LAMBDA r : r.id = event_id)
    IN  IF auth.status # OK THEN HTTPException(d, auth.status)
        ELSE IF db_event = <<>> THEN HTTPException(d, NotFound)
        ELSE IF auth.user.is_admin # True THEN HTTPException(d, Forbidden)
        ELSE Response(NoContent, <<>>,
                      delete(nullify(d, EventChildren, "event_id", event_id),
                             "events", event_id))

delete_event(d, token, event_id) ==
    LET auth == get_current_admin_user(d, token) IN
    IF auth.status # OK THEN HTTPException(d, auth.status)
    ELSE LET db_event == SelectSeq(d.events, LAMBDA r : r.id = event_id) IN
         IF db_event = <<>> THEN HTTPException(d, NotFound)
         ELSE Response(NoContent, <<>>,
                       delete(nullify(d, EventChildren, "event_id", event_id),
                              "events", event_id))

(* variant of register_checks: only an active registration of the pair
   counts as existing *)
register_checks_active_only(d, current_user, user_event) ==
    LET user == SelectSeq(d.users, LAMBDA r : r.id = user_event.user_id)
        event == SelectSeq(d.events, LAMBDA r : r.id = user_event.event_id)
        existing_registration ==
            SelectSeq(d.user_events,
                      LAMBDA r : r.user_id = user_event.user_id
                                 /\ r.event_id = user_event.event_id
                                 /\ r.is_active = True)
    IN  IF user = <<>> THEN NotFound
        ELSE IF event = <<>> THEN NotFound
        ELSE IF current_user.is_admin # True
                /\ current_user.id # user_event.user_id THEN Forbidden
        ELSE IF existing_registration # <<>> THEN Conflict
        ELSE OK

(* variant of register_checks: the pair is not looked up *)
register_checks_without_lookup(d, current_user, user_event) ==
    LET user == SelectSeq(d.users, LAMBDA r : r.id = user_event.user_id)
        event == SelectSeq(d.events, LAMBDA r : r.id = user_event.event_id)
    IN  IF user = <<>> THEN NotFound
        ELSE IF event = <<>> THEN NotFound
        ELSE IF current_user.is_admin # True
                /\ current_user.id # user_event.user_id THEN Forbidden
        ELSE OK

(* variant of register_checks: the authorization check comes first *)
register_checks_authorization_first(d, current_user, user_event) ==
    LET user == SelectSeq(d.users, LAMBDA r : r.id = user_event.user_id)
        event == SelectSeq(d.events, LAMBDA r : r.id = user_event.event_id)
        existing_registration ==
            SelectSeq(d.user_events,
                      LAMBDA r : r.user_id = user_event.user_id
                                 /\ r.event_id = user_event.event_id)
    IN  IF current_user.is_admin # True
           /\ current_user.id # user_event.user_id THEN Forbidden
        ELSE IF user = <<>> THEN NotFound
        ELSE IF event = <<>> THEN NotFound
        ELSE IF existing_registration # <<>> THEN Conflict
        ELSE OK

(* lines 141-165: the checks of register_for_event; OK when all pass *)
register_checks(d, current_user, user_event) ==
    LET user == SelectSeq(d.users, LAMBDA r : r.id = user_event.user_id)
        event == SelectSeq(d.events, LAMBDA r : r.id = user_event.event_id)
        existing_registration ==
            SelectSeq(d.user_events,
                      LAMBDA r : r.user_id = user_event.user_id
                                 /\ r.event_id = user_event.event_id)
    IN  IF user = <<>> THEN NotFound
        ELSE IF event = <<>> THEN NotFound
        ELSE IF current_user.is_admin # True
                /\ current_user.id # user_event.user_id THEN Forbidden
        ELSE IF existing_registration # <<>> THEN Conflict
        ELSE OK

(* variant of register_insert: the store holds a uniqueness constraint on
   (user_id, event_id) and refuses the second row of a pair *)
register_insert_unique(d, user_event, t) ==
    LET db_user_event == UserEvent(NextId(d.user_events), user_event.user_id,
                                   user_event.event_id, t, user_event.is_active)
        existing == SelectSeq(d.user_events,
                              LAMBDA r : r.user_id = user_event.user_id
                                         /\ r.event_id = user_event.event_id)
    IN  IF existing # <<>> THEN HTTPException(d, Conflict)
        ELSE Response(OK, <<db_user_event>>,
                      add(d, "user_events", db_user_event))

(* lines 167-172: the insert of register_for_event *)
register_insert(d, user_event, t) ==
    LET db_user_event == UserEvent(NextId(d.user_events), user_event.user_id,
                                   user_event.event_id, t, user_event.is_active)
    IN  Response(OK, <<db_user_event>>, add(d, "user_events", db_user_event))

register_for_event(d, token, user_event, t) ==
    LET auth == get_current_active_user(d, token) IN
    IF auth.status # OK THEN HTTPException(d, auth.status)
    ELSE LET checked == register_checks(d, auth.user, user_event) IN
         IF checked # OK THEN HTTPException(d, checked)
         ELSE register_insert(d, user_event, t)

read_event_registrations(d, token, event_id, user_id, is_active, skip, limit) ==
    LET auth == get_current_active_user(d, token) IN
    IF auth.status # OK THEN HTTPException(d, auth.status)
    ELSE LET current_user == auth.user
             q == SelectSeq(d.user_events,
                    LAMBDA r :
                        /\ IF current_user.is_admin # True
                           THEN r.user_id = current_user.id
                           ELSE Truthy(user_id) => r.user_id = user_id
                        /\ Truthy(event_id) => r.event_id = event_id
                        /\ is_active # None => r.is_active = is_active)
         IN  Response(OK, Paginate(q, skip, limit), d)

update_event_registration(d, token, registration_id, registration_update) ==
    LET auth == get_current_active_user(d, token) IN
    IF auth.status # OK THEN HTTPException(d, auth.status)
    ELSE LET current_user == auth.user
             db_registration ==
                 SelectSeq(d.user_events, LAMBDA r : r.id = registration_id)
         IN  IF db_registration = <<>> THEN HTTPException(d, NotFound)
             ELSE IF current_user.is_admin # True
                     /\ Head(db_registration).user_id # current_user.id
             THEN HTTPException(d, Forbidden)
             ELSE LET row == setattrs(Head(db_registration), registration_update)
                  IN  Response(OK, <<row>>, put(d, "user_events", row))

(* variant of delete_event_registration: the row is kept and flagged with
   is_active = false *)
delete_event_registration_soft(d, token, registration_id) ==
    LET auth == get_current_active_user(d, token) IN
    IF auth.status # OK THEN HTTPException(d, auth.status)
    ELSE LET current_user == auth.user
             db_registration ==
                 SelectSeq(d.user_events, LAMBDA r : r.id = registration_id)
         IN  IF db_registration = <<>> THEN HTTPException(d, NotFound)
             ELSE IF current_user.is_admin # True
                     /\ Head(db_registration).user_id # current_user.id
             THEN HTTPException(d, Forbidden)
             ELSE Response(NoContent, <<>>,
                           put(d, "user_events",
                               [Head(db_registration) EXCEPT !.is_active = False]))

delete_event_registration(d, token, registration_id) ==
    LET auth == get_current_active_user(d, token) IN
    IF auth.status # OK THEN HTTPException(d, auth.status)
    ELSE LET current_user == auth.user
             db_registration ==
                 SelectSeq(d.user_events, LAMBDA r : r.id = registration_id)
         IN  IF db_registration = <<>> THEN HTTPException(d, NotFound)
             ELSE IF current_user.is_admin # True
                     /\ Head(db_registration).user_id # current_user.id
             THEN HTTPException(d, Forbidden)
             ELSE Response(NoContent, <<>>,
                           delete(d, "user_events", registration_id))

(* t is the value of datetime.utcnow() *)
(* variant of checkin_to_event: the registration is looked up before the
   caller's right to act for user_id is checked *)
checkin_to_event_lookup_first(d, token, event_id, user_id, t) ==
    LET auth == get_current_active_user(d, token) IN
    IF auth.status # OK THEN HTTPException(d, auth.status)
    ELSE LET current_user == auth.user
             uid == IF user_id = None THEN current_user.id ELSE user_id
             registration == SelectSeq(d.user_events, LAMBDA r : r.user_id = uid /\ r.event_id = event_id /\ r.is_active = True)
         IN  IF registration = <<>> THEN HTTPException(d, NotFound)
             ELSE IF user_id # None /\ current_user.is_admin # True
                     /\ user_id # current_user.id
             THEN HTTPException(d, Forbidden)
             ELSE LET row == [Head(registration) EXCEPT !.checkin_time = t]
                  IN  Response(OK, <<row>>, put(d, "user_events", row))

(* variant of checkin_to_event: a registration that holds a checkin_time
   is not checked in again *)
checkin_to_event_once(d, token, event_id, user_id, t) ==
    LET auth == get_current_active_user(d, token) IN
    IF auth.status # OK THEN HTTPException(d, auth.status)
    ELSE LET current_user == auth.user IN
         IF user_id # None /\ current_user.is_admin # True
            /\ user_id # current_user.id
         THEN HTTPException(d, Forbidden)
         ELSE LET uid == IF user_id = None THEN current_user.id ELSE user_id
                  registration == SelectSeq(d.user_events, LAMBDA r : r.user_id = uid /\ r.event_id = event_id /\ r.is_active = True)
              IN  IF registration = <<>> THEN HTTPException(d, NotFound)
                  ELSE IF Head(registration).checkin_time # None
                  THEN HTTPException(d, Conflict)
                  ELSE LET row == [Head(registration) EXCEPT !.checkin_time = t]
                       IN  Response(OK, <<row>>, put(d, "user_events", row))

checkin_to_event(d, token, event_id, user_id, t) ==
    LET auth == get_current_active_user(d, token) IN
    IF auth.status # OK THEN HTTPException(d, auth.status)
    ELSE LET current_user == auth.user IN
         IF user_id # None /\ current_user.is_admin # True
            /\ user_id # current_user.id
         THEN HTTPException(d, Forbidden)
         ELSE LET uid == IF user_id = None THEN current_user.id ELSE user_id
                  registration ==
                      SelectSeq(d.user_events,
                                LAMBDA r : r.user_id = uid
                                           /\ r.event_id = event_id
                                           /\ r.is_active = True)
              IN  IF registration = <<>> THEN HTTPException(d, NotFound)
                  ELSE LET row == [Head(registration) EXCEPT !.checkin_time = t]
                       IN  Response(OK, <<row>>, put(d, "user_events", row))

(* variant of checkout_from_event: a registration that holds no
   checkin_time is not checked out *)
checkout_from_event_guarded(d, token, event_id, user_id, t) ==
    LET auth == get_current_active_user(d, token) IN
    IF auth.status # OK THEN HTTPException(d, auth.status)
    ELSE LET current_user == auth.user IN
         IF user_id # None /\ current_user.is_admin # True
            /\ user_id # current_user.id
         THEN HTTPException(d, Forbidden)
         ELSE LET uid == IF user_id = None THEN current_user.id ELSE user_id
                  registration ==
                      SelectSeq(d.user_events,
                                LAMBDA r : r.user_id = uid
                                           /\ r.event_id = event_id
                                           /\ r.is_active = True)
              IN  IF registration = <<>> THEN HTTPException(d, NotFound)
                  ELSE IF Head(registration).checkin_time = None
                  THEN HTTPException(d, Conflict)
                  ELSE LET row == [Head(registration) EXCEPT !.checkout_time = t]
                       IN  Response(OK, <<row>>, put(d, "user_events", row))

(* variant of checkout_from_event: checking out ends the registration, its
   is_active is set to false *)
checkout_from_event_deactivating(d, token, event_id, user_id, t) ==
    LET auth == get_current_active_user(d, token) IN
    IF auth.status # OK THEN HTTPException(d, auth.status)
    ELSE LET current_user == auth.user IN
         IF user_id # None /\ current_user.is_admin # True
            /\ user_id # current_user.id
         THEN HTTPException(d, Forbidden)
         ELSE LET uid == IF user_id = None THEN current_user.id ELSE user_id
                  registration ==
                      SelectSeq(d.user_events,
                                LAMBDA r : r.user_id = uid
                                           /\ r.event_id = event_id
                                           /\ r.is_active = True)
              IN  IF registration = <<>> THEN HTTPException(d, NotFound)
                  ELSE LET row == [Head(registration) EXCEPT !.checkout_time = t, !.is_active = False]
                       IN  Response(OK, <<row>>, put(d, "user_events", row))

(* variant of checkout_from_event: the lookup takes the registration of the
   pair whatever its is_active *)
checkout_from_event_inactive(d, token, event_id, user_id, t) ==
    LET auth == get_current_active_user(d, token) IN
    IF auth.status # OK THEN HTTPException(d, auth.status)
    ELSE LET current_user == auth.user IN
         IF user_id # None /\ current_user.is_admin # True
            /\ user_id # current_user.id
         THEN HTTPException(d, Forbidden)
         ELSE LET uid == IF user_id = None THEN current_user.id ELSE user_id
                  registration ==
                      SelectSeq(d.user_events,
                                LAMBDA r : r.user_id = uid
                                           /\ r.event_id = event_id)
              IN  IF registration = <<>> THEN HTTPException(d, NotFound)
                  ELSE LET row == [Head(registration) EXCEPT !.checkout_time = t]
                       IN  Response(OK, <<row>>, put(d, "user_events", row))

checkout_from_event(d, token, event_id, user_id, t) ==
    LET auth == get_current_active_user(d, token) IN
    IF auth.status # OK THEN HTTPException(d, auth.status)
    ELSE LET current_user == auth.user IN
         IF user_id # None /\ current_user.is_admin # True
            /\ user_id # current_user.id
         THEN HTTPException(d, Forbidden)
         ELSE LET uid == IF user_id = None THEN current_user.id ELSE user_id
                  registration ==
                      SelectSeq(d.user_events,
                                LAMBDA r : r.user_id = uid
                                           /\ r.event_id = event_id
                                           /\ r.is_active = True)
              IN  IF registration = <<>> THEN HTTPException(d, NotFound)
                  ELSE LET row == [Head(registration) EXCEPT !.checkout_time = t]
                       IN  Response(OK, <<row>>, put(d, "user_events", row))

(* the routes of the events router, in the order of their declaration; a
   path is the sequence of its segments after the router's prefix *)
PathParams == {"{event_id}", "{registration_id}"}

EventRoutes ==
    << [method |-> "POST", path |-> <<>>, endpoint |-> "create_event"],
       [method |-> "GET", path |-> <<>>, endpoint |-> "read_events"],
       [method |-> "GET", path |-> <<"upcoming">>,
        endpoint |-> "read_upcoming_events"],
       [method |-> "GET", path |-> <<"{event_id}">>, endpoint |-> "read_event"],
       [method |-> "PUT", path |-> <<"{event_id}">>, endpoint |-> "update_event"],
       [method |-> "DELETE", path |-> <<"{event_id}">>,
        endpoint |-> "delete_event"],
       [method |-> "POST", path |-> <<"register">>,
        endpoint |-> "register_for_event"],
       [method |-> "GET", path |-> <<"registrations">>,
        endpoint |-> "read_event_registrations"],
       [method |-> "PUT", path |-> <<"registrations", "{registration_id}">>,
        endpoint |-> "update_event_registration"],
       [method |-> "DELETE", path |-> <<"registrations", "{registration_id}">>,
        endpoint |-> "delete_event_registration"],
       [method |-> "POST", path |-> <<"checkin">>,
        endpoint |-> "checkin_to_event"],
       [method |-> "POST", path |-> <<"checkout">>,
        endpoint |-> "checkout_from_event"] >>

(* a route matches a request of its method whose path has its length and
   its literal segments; a path parameter matches any one segment *)
Matches(route, method, path) ==
    /\ route.method = method
    /\ Len(route.path) = Len(path)
    /\ \A i \in DOMAIN path :
          route.path[i] \in PathParams \/ route.path[i] = path[i]

(* the endpoint of the first route that matches, "" when none does *)
RouteOf(routes, method, path) ==
    LET matching == SelectSeq(routes, LAMBDA r : Matches(r, method, path))
    IN  IF matching = <<>> THEN "" ELSE Head(matching).endpoint

(* event_id: int, a path parameter: the segments that are integers *)
IntOf == [s \in {"1", "2"} |-> IF s = "1" THEN 1 ELSE 2]

UnprocessableEntity == 422

(* a GET request to the events router: the request is routed, the
   dependencies and the path parameter of the endpoint are resolved, and the
   endpoint is called; query parameters are left at their defaults *)
get_events_router(d, token, path, window) ==
    LET endpoint == RouteOf(EventRoutes, "GET", path)
        auth == get_current_active_user(d, token)
    IN  IF endpoint = "read_events"
        THEN read_events(d, token, None, 0, DefaultLimit)
        ELSE IF endpoint = "read_upcoming_events"
        THEN read_upcoming_events(d, token, window)
        ELSE IF endpoint = "read_event"
        THEN IF auth.status # OK THEN HTTPException(d, auth.status)
             ELSE IF path[1] \notin DOMAIN IntOf
             THEN HTTPException(d, UnprocessableEntity)
             ELSE read_event(d, token, IntOf[path[1]])
        ELSE IF endpoint = "read_event_registrations"
        THEN read_event_registrations(d, token, None, None, None, 0, DefaultLimit)
        ELSE HTTPException(d, NotFound)

(***************************************************************************)
(* api/v1/biometrics.py                                                    *)
(***************************************************************************)
create_biometric_data(d, token, biometric_data) ==
    LET auth == get_current_active_user(d, token) IN
    IF auth.status # OK THEN HTTPException(d, auth.status)
    ELSE LET user == SelectSeq(d.users,
                               LAMBDA r : r.id = biometric_data.user_id)
             event == SelectSeq(d.events,
                                LAMBDA r : r.id = biometric_data.event_id)
         IN  IF user = <<>> THEN HTTPException(d, NotFound)
             ELSE IF event = <<>> THEN HTTPException(d, NotFound)
             ELSE LET db_biometric_data ==
                          BiometricData(NextId(d.biometric_data),
                                        biometric_data.user_id,
                                        biometric_data.event_id,
                                        biometric_data.device_id,
                                        biometric_data.heart_rate,
                                        biometric_data.energy_level,
                                        biometric_data.emotional_state)
                  IN  Response(OK, <<db_biometric_data>>,
                               add(d, "biometric_data", db_biometric_data))

(* variant of read_biometric_data: the user_id parameter is applied for
   every caller *)
read_biometric_data_by_param(d, token, user_id, event_id, device_id, skip, limit) ==
    LET auth == get_current_active_user(d, token) IN
    IF auth.status # OK THEN HTTPException(d, auth.status)
    ELSE LET q == SelectSeq(d.biometric_data,
                    LAMBDA r :
                        /\ Truthy(user_id) => r.user_id = user_id
                        /\ Truthy(event_id) => r.event_id = event_id
                        /\ Truthy(device_id) => r.device_id = device_id)
         IN  Response(OK, Paginate(q, skip, limit), d)

read_biometric_data(d, token, user_id, event_id, device_id, skip, limit) ==
    LET auth == get_current_active_user(d, token) IN
    IF auth.status # OK THEN HTTPException(d, auth.status)
    ELSE LET current_user == auth.user
             q == SelectSeq(d.biometric_data,
                    LAMBDA r :
                        /\ IF current_user.is_admin # True
                           THEN r.user_id = current_user.id
                           ELSE Truthy(user_id) => r.user_id = user_id
                        /\ Truthy(event_id) => r.event_id = event_id
                        /\ Truthy(device_id) => r.device_id = device_id)
         IN  Response(OK, Paginate(q, skip, limit), d)

read_biometric_data_by_id(d, token, biometric_data_id) ==
    LET auth == get_current_active_user(d, token) IN
    IF auth.status # OK THEN HTTPException(d, auth.status)
    ELSE LET current_user == auth.user
             biometric_data ==
                 SelectSeq(d.biometric_data, LAMBDA r : r.id = biometric_data_id)
         IN  IF biometric_data = <<>> THEN HTTPException(d, NotFound)
             ELSE IF current_user.is_admin # True
                     /\ Head(biometric_data).user_id # current_user.id
             THEN HTTPException(d, Forbidden)
             ELSE Response(OK, <<Head(biometric_data)>>, d)

update_biometric_data(d, token, biometric_data_id, biometric_data_update) ==
    LET auth == get_current_active_user(d, token) IN
    IF auth.status # OK THEN HTTPException(d, auth.status)
    ELSE LET current_user == auth.user
             db_biometric_data ==
                 SelectSeq(d.biometric_data, LAMBDA r : r.id = biometric_data_id)
         IN  IF db_biometric_data = <<>> THEN HTTPException(d, NotFound)
             ELSE IF current_user.is_admin # True
                     /\ Head(db_biometric_data).user_id # current_user.id
             THEN HTTPException(d, Forbidden)
             ELSE LET row == setattrs(Head(db_biometric_data),
                                      biometric_data_update)
                  IN  Response(OK, <<row>>, put(d, "biometric_data", row))

delete_biometric_data(d, token, biometric_data_id) ==
    LET auth == get_current_active_user(d, token) IN
    IF auth.status # OK THEN HTTPException(d, auth.status)
    ELSE LET current_user == auth.user
             db_biometric_data ==
                 SelectSeq(d.biometric_data, LAMBDA r : r.id = biometric_data_id)
         IN  IF db_biometric_data = <<>> THEN HTTPException(d, NotFound)
             ELSE IF current_user.is_admin # True
                     /\ Head(db_biometric_data).user_id # current_user.id
             THEN HTTPException(d, Forbidden)
             ELSE Response(NoContent, <<>>,
                           delete(d, "biometric_data", biometric_data_id))

(* variant of create_biometric_device: the device is inserted without a
   look at the devices already registered *)
create_biometric_device_unchecked(d, token, device) ==
    LET auth == get_current_admin_user(d, token) IN
    IF auth.status # OK THEN HTTPException(d, auth.status)
    ELSE LET db_device ==
                 BiometricDevice(NextId(d.biometric_devices),
                                 device.device_id, device.device_type,
                                 device.is_active)
         IN  Response(OK, <<db_device>>, add(d, "biometric_devices", db_device))

(* variant of insert_biometric_device: the column device_id carries no
   unique constraint *)
insert_biometric_device_unconstrained(d, device) ==
    LET db_device == BiometricDevice(NextId(d.biometric_devices),
                                     device.device_id, device.device_type,
                                     device.is_active)
    IN  Response(OK, <<db_device>>, add(d, "biometric_devices", db_device))

(* lines 175-179: the insert and commit of create_biometric_device; the
   column device_id is unique, and a commit that would give two devices one
   device_id raises IntegrityError, which the handler does not catch *)
insert_biometric_device(d, device) ==
    LET db_device == BiometricDevice(NextId(d.biometric_devices),
                                     device.device_id, device.device_type,
                                     device.is_active)
    IN  IF \E i \in DOMAIN d.biometric_devices :
              d.biometric_devices[i].device_id = device.device_id
        THEN HTTPException(d, InternalServerError)
        ELSE Response(OK, <<db_device>>, add(d, "biometric_devices", db_device))

create_biometric_device(d, token, device) ==
    LET auth == get_current_admin_user(d, token) IN
    IF auth.status # OK THEN HTTPException(d, auth.status)
    ELSE LET existing_device ==
                 SelectSeq(d.biometric_devices,
                           LAMBDA r : r.device_id = device.device_id)
         IN  IF existing_device # <<>> THEN HTTPException(d, Conflict)
             ELSE insert_biometric_device(d, device)

read_biometric_devices(d, token, is_active, skip, limit) ==
    LET auth == get_current_active_user(d, token) IN
    IF auth.status # OK THEN HTTPException(d, auth.status)
    ELSE LET q == SelectSeq(d.biometric_devices,
                     LAMBDA r : is_active # None => r.is_active = is_active) IN
         Response(OK, Paginate(q, skip, limit), d)

read_biometric_device(d, token, device_id) ==
    LET auth == get_current_active_user(d, token) IN
    IF auth.status # OK THEN HTTPException(d, auth.status)
    ELSE LET device == SelectSeq(d.biometric_devices,
                                 LAMBDA r : r.device_id = device_id) IN
         IF device = <<>> THEN HTTPException(d, NotFound)
         ELSE Response(OK, <<Head(device)>>, d)

(* variant of update_biometric_device: last_connection is set only when the
   payload names a field *)
update_biometric_device_on_change(d, token, device_id, device_update, t) ==
    LET auth == get_current_admin_user(d, token) IN
    IF auth.status # OK THEN HTTPException(d, auth.status)
    ELSE LET db_device == SelectSeq(d.biometric_devices,
                                    LAMBDA r : r.device_id = device_id) IN
         IF db_device = <<>> THEN HTTPException(d, NotFound)
         ELSE LET row == IF DOMAIN device_update = {}
                         THEN Head(db_device)
                         ELSE [setattrs(Head(db_device), device_update)
                                  EXCEPT !.last_connection = t, !.updated_at = t]
              IN  Response(OK, <<row>>, put(d, "biometric_devices", row))

(* t is the value of datetime.utcnow() *)
update_biometric_device(d, token, device_id, device_update, t) ==
    LET auth == get_current_admin_user(d, token) IN
    IF auth.status # OK THEN HTTPException(d, auth.status)
    ELSE LET db_device == SelectSeq(d.biometric_devices,
                                    LAMBDA r : r.device_id = device_id) IN
         IF db_device = <<>> THEN HTTPException(d, NotFound)
         ELSE LET row == [setattrs(Head(db_device), device_update)
                             EXCEPT !.last_connection = t, !.updated_at = t]
              IN  Response(OK, <<row>>, put(d, "biometric_devices", row))

delete_biometric_device(d, token, device_id) ==
    LET auth == get_current_admin_user(d, token) IN
    IF auth.status # OK THEN HTTPException(d, auth.status)
    ELSE LET db_device == SelectSeq(d.biometric_devices,
                                    LAMBDA r : r.device_id = device_id) IN
         IF db_device = <<>> THEN HTTPException(d, NotFound)
         ELSE Response(NoContent, <<>>,
                       delete(d, "biometric_devices", Head(db_device).id))

(* the five labels, in the order of the list emotional_states *)
emotional_states == <<1, 2, 3, 4, 5>>

(* energy_level is given in units of 1/Scale *)
Scale == 100

(* an index outside the list raises IndexError, which no handler catches:
   the request ends in an internal server error *)
IndexError == 0

(* variant of emotional_state_of: the index is rounded to the nearest
   integer *)
emotional_state_rounded(energy_level) ==
    LET index == (2 * energy_level * Len(emotional_states) + Scale) \div (2 * Scale)
    IN  IF index + 1 \in DOMAIN emotional_states
        THEN emotional_states[index + 1] ELSE IndexError

(* emotional_states[int(energy_level * len(emotional_states))]: int()
   truncates, and the index is 0-based *)
emotional_state_of(energy_level) ==
    LET index == (energy_level * Len(emotional_states)) \div Scale
    IN  IF index + 1 \in DOMAIN emotional_states
        THEN emotional_states[index + 1] ELSE IndexError

simulate_biometric_data(d, token, user_id, event_id, device_id, heart_rate, energy_level) ==
    LET auth == get_current_active_user(d, token) IN
    IF auth.status # OK THEN HTTPException(d, auth.status)
    ELSE LET user == SelectSeq(d.users, LAMBDA r : r.id = user_id)
             event == SelectSeq(d.events, LAMBDA r : r.id = event_id)
         IN  IF user = <<>> THEN HTTPException(d, NotFound)
             ELSE IF event = <<>> THEN HTTPException(d, NotFound)
             ELSE IF emotional_state_of(energy_level) = IndexError
             THEN HTTPException(d, InternalServerError)
             ELSE LET emotional_state == emotional_state_of(energy_level)
                      biometric_data ==
                          BiometricData(NextId(d.biometric_data), user_id,
                                        event_id, device_id, heart_rate,
                                        energy_level, emotional_state)
                  IN  Response(OK, <<biometric_data>>,
                               add(d, "biometric_data", biometric_data))

(***************************************************************************)
(* api/v1/movement.py                                                      *)
(***************************************************************************)
create_movement_data(d, token, movement_data) ==
    LET auth == get_current_active_user(d, token) IN
    IF auth.status # OK THEN HTTPException(d, auth.status)
    ELSE LET event == SelectSeq(d.events,
                                LAMBDA r : r.id = movement_data.event_id) IN
         IF event = <<>> THEN HTTPException(d, NotFound)
         ELSE LET db_movement_data ==
                      MovementData(NextId(d.movement_data),
                                   movement_data.event_id,
                                   movement_data.velocity)
              IN  Response(OK, <<db_movement_data>>,
                           add(d, "movement_data", db_movement_data))

read_movement_data(d, token, event_id, skip, limit) ==
    LET auth == get_current_active_user(d, token) IN
    IF auth.status # OK THEN HTTPException(d, auth.status)
    ELSE LET q == SelectSeq(d.movement_data,
                     LAMBDA r : Truthy(event_id) => r.event_id = event_id) IN
         Response(OK, Paginate(q, skip, limit), d)

read_movement_data_by_id(d, token, movement_data_id) ==
    LET auth == get_current_active_user(d, token) IN
    IF auth.status # OK THEN HTTPException(d, auth.status)
    ELSE LET movement_data ==
                 SelectSeq(d.movement_data, LAMBDA r : r.id = movement_data_id)
         IN  IF movement_data = <<>> THEN HTTPException(d, NotFound)
             ELSE Response(OK, <<Head(movement_data)>>, d)

update_movement_data(d, token, movement_data_id, movement_data_update) ==
    LET auth == get_current_active_user(d, token) IN
    IF auth.status # OK THEN HTTPException(d, auth.status)
    ELSE LET db_movement_data ==
                 SelectSeq(d.movement_data, LAMBDA r : r.id = movement_data_id)
         IN  IF db_movement_data = <<>> THEN HTTPException(d, NotFound)
             ELSE LET row == setattrs(Head(db_movement_data),
                                      movement_data_update)
                  IN  Response(OK, <<row>>, put(d, "movement_data", row))

delete_movement_data(d, token, movement_data_id) ==
    LET auth == get_current_admin_user(d, token) IN
    IF auth.status # OK THEN HTTPException(d, auth.status)
    ELSE LET db_movement_data ==
                 SelectSeq(d.movement_data, LAMBDA r : r.id = movement_data_id)
         IN  IF db_movement_data = <<>> THEN HTTPException(d, NotFound)
             ELSE Response(NoContent, <<>>,
                           delete(nullify(d, {"sound_events"},
                                          "movement_data_id", movement_data_id),
                                  "movement_data", movement_data_id))

create_movement_pattern(d, token, pattern) ==
    LET auth == get_current_admin_user(d, token) IN
    IF auth.status # OK THEN HTTPException(d, auth.status)
    ELSE LET db_pattern == MovementPattern(NextId(d.movement_patterns),
                                           pattern.name) IN
         Response(OK, <<db_pattern>>, add(d, "movement_patterns", db_pattern))

read_movement_patterns(d, token, skip, limit) ==
    LET auth == get_current_active_user(d, token) IN
    IF auth.status # OK THEN HTTPException(d, auth.status)
    ELSE Response(OK, Paginate(d.movement_patterns, skip, limit), d)

read_movement_pattern(d, token, pattern_id) ==
    LET auth == get_current_active_user(d, token) IN
    IF auth.status # OK THEN HTTPException(d, auth.status)
    ELSE LET pattern == SelectSeq(d.movement_patterns,
                                  LAMBDA r : r.id = pattern_id) IN
         IF pattern = <<>> THEN HTTPException(d, NotFound)
         ELSE Response(OK, <<Head(pattern)>>, d)

update_movement_pattern(d, token, pattern_id, pattern_update, t) ==
    LET auth == get_current_admin_user(d, token) IN
    IF auth.status # OK THEN HTTPException(d, auth.status)
    ELSE LET db_pattern == SelectSeq(d.movement_patterns,
                                     LAMBDA r : r.id = pattern_id) IN
         IF db_pattern = <<>> THEN HTTPException(d, NotFound)
         ELSE LET row == onupdate(Head(db_pattern),
                                  setattrs(Head(db_pattern), pattern_update), t) IN
              Response(OK, <<row>>, put(d, "movement_patterns", row))

(* variant of delete_movement_pattern: any authenticated caller is let in *)
delete_movement_pattern_by_user(d, token, pattern_id) ==
    LET auth == get_current_active_user(d, token) IN
    IF auth.status # OK THEN HTTPException(d, auth.status)
    ELSE LET db_pattern == SelectSeq(d.movement_patterns,
                                     LAMBDA r : r.id = pattern_id) IN
         IF db_pattern = <<>> THEN HTTPException(d, NotFound)
         ELSE Response(NoContent, <<>>,
                       delete(nullify(d, {"detected_patterns"}, "pattern_id",
                                      pattern_id),
                              "movement_patterns", pattern_id))

delete_movement_pattern(d, token, pattern_id) ==
    LET auth == get_current_admin_user(d, token) IN
    IF auth.status # OK THEN HTTPException(d, auth.status)
    ELSE LET db_pattern == SelectSeq(d.movement_patterns,
                                     LAMBDA r : r.id = pattern_id) IN
         IF db_pattern = <<>> THEN HTTPException(d, NotFound)
         ELSE Response(NoContent, <<>>,
                       delete(nullify(d, {"detected_patterns"}, "pattern_id",
                                      pattern_id),
                              "movement_patterns", pattern_id))

create_detected_pattern(d, token, detected_pattern) ==
    LET auth == get_current_active_user(d, token) IN
    IF auth.status # OK THEN HTTPException(d, auth.status)
    ELSE LET pattern == SelectSeq(d.movement_patterns,
                                  LAMBDA r : r.id = detected_pattern.pattern_id)
             event == SelectSeq(d.events,
                                LAMBDA r : r.id = detected_pattern.event_id)
         IN  IF pattern = <<>> THEN HTTPException(d, NotFound)
             ELSE IF event = <<>> THEN HTTPException(d, NotFound)
             ELSE LET db_detected_pattern ==
                          DetectedPattern(NextId(d.detected_patterns),
                                          detected_pattern.pattern_id,
                                          detected_pattern.event_id)
                  IN  Response(OK, <<db_detected_pattern>>,
                               add(d, "detected_patterns", db_detected_pattern))

read_detected_patterns(d, token, event_id, pattern_id, skip, limit) ==
    LET auth == get_current_active_user(d, token) IN
    IF auth.status # OK THEN HTTPException(d, auth.status)
    ELSE LET q == SelectSeq(d.detected_patterns,
                     LAMBDA r : /\ Truthy(event_id) => r.event_id = event_id
                                /\ Truthy(pattern_id) => r.pattern_id = pattern_id)
         IN  Response(OK, Paginate(q, skip, limit), d)

(* velocity is the mean speed computed from the drawn dancers *)
simulate_movement_data(d, token, event_id, velocity) ==
    LET auth == get_current_active_user(d, token) IN
    IF auth.status # OK THEN HTTPException(d, auth.status)
    ELSE LET event == SelectSeq(d.events, LAMBDA r : r.id = event_id) IN
         IF event = <<>> THEN HTTPException(d, NotFound)
         ELSE LET movement_data ==
                      MovementData(NextId(d.movement_data), event_id, velocity)
              IN  Response(OK, <<movement_data>>,
                           add(d, "movement_data", movement_data))

(***************************************************************************)
(* api/v1/sound.py                                                         *)
(***************************************************************************)
create_sound_event(d, token, sound_event) ==
    LET auth == get_current_active_user(d, token) IN
    IF auth.status # OK THEN HTTPException(d, auth.status)
    ELSE LET event == SelectSeq(d.events,
                                LAMBDA r : r.id = sound_event.event_id)
             movement_data ==
                 SelectSeq(d.movement_data,
                           LAMBDA r : r.id = sound_event.movement_data_id)
         IN  IF event = <<>> THEN HTTPException(d, NotFound)
             ELSE IF Truthy(sound_event.movement_data_id) /\ movement_data = <<>>
             THEN HTTPException(d, NotFound)
             ELSE LET db_sound_event ==
                          SoundEvent(NextId(d.sound_events),
                                     sound_event.event_id,
                                     sound_event.movement_data_id,
                                     sound_event.intensity)
                  IN  Response(OK, <<db_sound_event>>,
                               add(d, "sound_events", db_sound_event))

read_sound_events(d, token, event_id, skip, limit) ==
    LET auth == get_current_active_user(d, token) IN
    IF auth.status # OK THEN HTTPException(d, auth.status)
    ELSE LET q == SelectSeq(d.sound_events,
                     LAMBDA r : Truthy(event_id) => r.event_id = event_id) IN
         Response(OK, Paginate(q, skip, limit), d)

read_sound_event(d, token, sound_event_id) ==
    LET auth == get_current_active_user(d, token) IN
    IF auth.status # OK THEN HTTPException(d, auth.status)
    ELSE LET sound_event == SelectSeq(d.sound_events,
                                      LAMBDA r : r.id = sound_event_id) IN
         IF sound_event = <<>> THEN HTTPException(d, NotFound)
         ELSE Response(OK, <<Head(sound_event)>>, d)

update_sound_event(d, token, sound_event_id, sound_event_update) ==
    LET auth == get_current_active_user(d, token) IN
    IF auth.status # OK THEN HTTPException(d, auth.status)
    ELSE LET db_sound_event == SelectSeq(d.sound_events,
                                         LAMBDA r : r.id = sound_event_id) IN
         IF db_sound_event = <<>> THEN HTTPException(d, NotFound)
         ELSE LET row == setattrs(Head(db_sound_event), sound_event_update) IN
              Response(OK, <<row>>, put(d, "sound_events", row))

delete_sound_event(d, token, sound_event_id) ==
    LET auth == get_current_admin_user(d, token) IN
    IF auth.status # OK THEN HTTPException(d, auth.status)
    ELSE LET db_sound_event == SelectSeq(d.sound_events,
                                         LAMBDA r : r.id = sound_event_id) IN
         IF db_sound_event = <<>> THEN HTTPException(d, NotFound)
         ELSE Response(NoContent, <<>>,
                       delete(d, "sound_events", sound_event_id))

create_song_selection(d, token, song) ==
    LET auth == get_current_active_user(d, token) IN
    IF auth.status # OK THEN HTTPException(d, auth.status)
    ELSE LET user == SelectSeq(d.users, LAMBDA r : r.id = song.user_id)
             event == SelectSeq(d.events, LAMBDA r : r.id = song.event_id)
         IN  IF user = <<>> THEN HTTPException(d, NotFound)
             ELSE IF event = <<>> THEN HTTPException(d, NotFound)
             ELSE LET db_song ==
                          SongSelection(NextId(d.song_selections), song.user_id,
                                        song.event_id, song.audio_features,
                                        song.is_approved)
                  IN  Response(OK, <<db_song>>,
                               add(d, "song_selections", db_song))

read_song_selections(d, token, user_id, event_id, is_approved, skip, limit) ==
    LET auth == get_current_active_user(d, token) IN
    IF auth.status # OK THEN HTTPException(d, auth.status)
    ELSE LET current_user == auth.user
             q == SelectSeq(d.song_selections,
                    LAMBDA r :
                        /\ IF current_user.is_admin # True
                           THEN r.user_id = current_user.id
                           ELSE Truthy(user_id) => r.user_id = user_id
                        /\ Truthy(event_id) => r.event_id = event_id
                        /\ is_approved # None => r.is_approved = is_approved)
         IN  Response(OK, Paginate(q, skip, limit), d)

read_song_selection(d, token, song_id) ==
    LET auth == get_current_active_user(d, token) IN
    IF auth.status # OK THEN HTTPException(d, auth.status)
    ELSE LET current_user == auth.user
             song == SelectSeq(d.song_selections, LAMBDA r : r.id = song_id)
         IN  IF song = <<>> THEN HTTPException(d, NotFound)
             ELSE IF current_user.is_admin # True
                     /\ Head(song).user_id # current_user.id
             THEN HTTPException(d, Forbidden)
             ELSE Response(OK, <<Head(song)>>, d)

(* song_update.is_approved reads as None when the field is absent from
   the payload (its default) *)
(* variant of update_song_selection: the payload is merged and committed
   before the approval check *)
update_song_selection_merge_first(d, token, song_id, song_update) ==
    LET auth == get_current_active_user(d, token) IN
    IF auth.status # OK THEN HTTPException(d, auth.status)
    ELSE LET current_user == auth.user
             db_song == SelectSeq(d.song_selections, LAMBDA r : r.id = song_id)
             is_approved == IF "is_approved" \in DOMAIN song_update
                            THEN song_update.is_approved ELSE None
         IN  IF db_song = <<>> THEN HTTPException(d, NotFound)
             ELSE IF current_user.is_admin # True
                     /\ Head(db_song).user_id # current_user.id
             THEN HTTPException(d, Forbidden)
             ELSE LET row == setattrs(Head(db_song), song_update) IN
                  IF current_user.is_admin # True /\ is_approved # None
                  THEN Response(Forbidden, <<>>, put(d, "song_selections", row))
                  ELSE Response(OK, <<row>>, put(d, "song_selections", row))

update_song_selection(d, token, song_id, song_update) ==
    LET auth == get_current_active_user(d, token) IN
    IF auth.status # OK THEN HTTPException(d, auth.status)
    ELSE LET current_user == auth.user
             db_song == SelectSeq(d.song_selections, LAMBDA r : r.id = song_id)
             is_approved == IF "is_approved" \in DOMAIN song_update
                            THEN song_update.is_approved ELSE None
         IN  IF db_song = <<>> THEN HTTPException(d, NotFound)
             ELSE IF current_user.is_admin # True
                     /\ Head(db_song).user_id # current_user.id
             THEN HTTPException(d, Forbidden)
             ELSE IF current_user.is_admin # True /\ is_approved # None
             THEN HTTPException(d, Forbidden)
             ELSE LET row == setattrs(Head(db_song), song_update) IN
                  Response(OK, <<row>>, put(d, "song_selections", row))

(* variant of delete_song_selection: the owner of the row is not compared
   with the caller *)
delete_song_selection_by_anyone(d, token, song_id) ==
    LET auth == get_current_active_user(d, token) IN
    IF auth.status # OK THEN HTTPException(d, auth.status)
    ELSE LET db_song == SelectSeq(d.song_selections, LAMBDA r : r.id = song_id)
         IN  IF db_song = <<>> THEN HTTPException(d, NotFound)
             ELSE Response(NoContent, <<>>,
                           delete(d, "song_selections", song_id))

delete_song_selection(d, token, song_id) ==
    LET auth == get_current_active_user(d, token) IN
    IF auth.status # OK THEN HTTPException(d, auth.status)
    ELSE LET current_user == auth.user
             db_song == SelectSeq(d.song_selections, LAMBDA r : r.id = song_id)
         IN  IF db_song = <<>> THEN HTTPException(d, NotFound)
             ELSE IF current_user.is_admin # True
                     /\ Head(db_song).user_id # current_user.id
             THEN HTTPException(d, Forbidden)
             ELSE Response(NoContent, <<>>,
                           delete(d, "song_selections", song_id))

create_sound_preset(d, token, preset) ==
    LET auth == get_current_admin_user(d, token) IN
    IF auth.status # OK THEN HTTPException(d, auth.status)
    ELSE LET db_preset == SoundPreset(NextId(d.sound_presets), preset.name) IN
         Response(OK, <<db_preset>>, add(d, "sound_presets", db_preset))

read_sound_presets(d, token, skip, limit) ==
    LET auth == get_current_active_user(d, token) IN
    IF auth.status # OK THEN HTTPException(d, auth.status)
    ELSE Response(OK, Paginate(d.sound_presets, skip, limit), d)

read_sound_preset(d, token, preset_id) ==
    LET auth == get_current_active_user(d, token) IN
    IF auth.status # OK THEN HTTPException(d, auth.status)
    ELSE LET preset == SelectSeq(d.sound_presets, LAMBDA r : r.id = preset_id)
         IN  IF preset = <<>> THEN HTTPException(d, NotFound)
             ELSE Response(OK, <<Head(preset)>>, d)

update_sound_preset(d, token, preset_id, preset_update, t) ==
    LET auth == get_current_admin_user(d, token) IN
    IF auth.status # OK THEN HTTPException(d, auth.status)
    ELSE LET db_preset == SelectSeq(d.sound_presets,
                                    LAMBDA r : r.id = preset_id) IN
         IF db_preset = <<>> THEN HTTPException(d, NotFound)
         ELSE LET row == onupdate(Head(db_preset),
                                  setattrs(Head(db_preset), preset_update), t) IN
              Response(OK, <<row>>, put(d, "sound_presets", row))

delete_sound_preset(d, token, preset_id) ==
    LET auth == get_current_admin_user(d, token) IN
    IF auth.status # OK THEN HTTPException(d, auth.status)
    ELSE LET db_preset == SelectSeq(d.sound_presets,
                                    LAMBDA r : r.id = preset_id) IN
         IF db_preset = <<>> THEN HTTPException(d, NotFound)
         ELSE Response(NoContent, <<>>, delete(d, "sound_presets", preset_id))

(* intensity is the drawn value; sound_type and parameters are not kept *)
simulate_sound_event(d, token, event_id, movement_data_id, intensity) ==
    LET auth == get_current_active_user(d, token) IN
    IF auth.status # OK THEN HTTPException(d, auth.status)
    ELSE LET event == SelectSeq(d.events, LAMBDA r : r.id = event_id)
             movement_data ==
                 SelectSeq(d.movement_data, LAMBDA r : r.id = movement_data_id)
         IN  IF event = <<>> THEN HTTPException(d, NotFound)
             ELSE IF Truthy(movement_data_id) /\ movement_data = <<>>
             THEN HTTPException(d, NotFound)
             ELSE LET sound_event ==
                          SoundEvent(NextId(d.sound_events), event_id,
                                     movement_data_id, intensity)
                  IN  Response(OK, <<sound_event>>,
                               add(d, "sound_events", sound_event))

(***************************************************************************)
(* api/v1/visualization.py                                                 *)
(***************************************************************************)
create_visualization_event(d, token, visualization_event) ==
    LET auth == get_current_active_user(d, token) IN
    IF auth.status # OK THEN HTTPException(d, auth.status)
    ELSE LET event == SelectSeq(d.events,
                                LAMBDA r : r.id = visualization_event.event_id)
         IN  IF event = <<>> THEN HTTPException(d, NotFound)
             ELSE LET db_visualization_event ==
                          VisualizationEvent(NextId(d.visualization_events),
                                             visualization_event.event_id,
                                             visualization_event.intensity)
                  IN  Response(OK, <<db_visualization_event>>,
                               add(d, "visualization_events",
                                   db_visualization_event))

read_visualization_events(d, token, event_id, skip, limit) ==
    LET auth == get_current_active_user(d, token) IN
    IF auth.status # OK THEN HTTPException(d, auth.status)
    ELSE LET q == SelectSeq(d.visualization_events,
                     LAMBDA r : Truthy(event_id) => r.event_id = event_id) IN
         Response(OK, Paginate(q, skip, limit), d)

read_visualization_event(d, token, visualization_event_id) ==
    LET auth == get_current_active_user(d, token) IN
    IF auth.status # OK THEN HTTPException(d, auth.status)
    ELSE LET visualization_event ==
                 SelectSeq(d.visualization_events,
                           LAMBDA r : r.id = visualization_event_id)
         IN  IF visualization_event = <<>> THEN HTTPException(d, NotFound)
             ELSE Response(OK, <<Head(visualization_event)>>, d)

update_visualization_event(d, token, visualization_event_id, visualization_event_update) ==
    LET auth == get_current_active_user(d, token) IN
    IF auth.status # OK THEN HTTPException(d, auth.status)
    ELSE LET db_visualization_event ==
                 SelectSeq(d.visualization_events,
                           LAMBDA r : r.id = visualization_event_id)
         IN  IF db_visualization_event = <<>> THEN HTTPException(d, NotFound)
             ELSE LET row == setattrs(Head(db_visualization_event),
                                      visualization_event_update)
                  IN  Response(OK, <<row>>,
                               put(d, "visualization_events", row))

delete_visualization_event(d, token, visualization_event_id) ==
    LET auth == get_current_admin_user(d, token) IN
    IF auth.status # OK THEN HTTPException(d, auth.status)
    ELSE LET db_visualization_event ==
                 SelectSeq(d.visualization_events,
                           LAMBDA r : r.id = visualization_event_id)
         IN  IF db_visualization_event = <<>> THEN HTTPException(d, NotFound)
             ELSE Response(NoContent, <<>>,
                           delete(d, "visualization_events",
                                  visualization_event_id))

create_visualization_preset(d, token, preset) ==
    LET auth == get_current_admin_user(d, token) IN
    IF auth.status # OK THEN HTTPException(d, auth.status)
    ELSE LET db_preset == VisualizationPreset(NextId(d.visualization_presets),
                                              preset.name) IN
         Response(OK, <<db_preset>>, add(d, "visualization_presets", db_preset))

read_visualization_presets(d, token, skip, limit) ==
    LET auth == get_current_active_user(d, token) IN
    IF auth.status # OK THEN HTTPException(d, auth.status)
    ELSE Response(OK, Paginate(d.visualization_presets, skip, limit), d)

read_visualization_preset(d, token, preset_id) ==
    LET auth == get_current_active_user(d, token) IN
    IF auth.status # OK THEN HTTPException(d, auth.status)
    ELSE LET preset == SelectSeq(d.visualization_presets,
                                 LAMBDA r : r.id = preset_id)
         IN  IF preset = <<>> THEN HTTPException(d, NotFound)
             ELSE Response(OK, <<Head(preset)>>, d)

update_visualization_preset(d, token, preset_id, preset_update, t) ==
    LET auth == get_current_admin_user(d, token) IN
    IF auth.status # OK THEN HTTPException(d, auth.status)
    ELSE LET db_preset == SelectSeq(d.visualization_presets,
                                    LAMBDA r : r.id = preset_id) IN
         IF db_preset = <<>> THEN HTTPException(d, NotFound)
         ELSE LET row == onupdate(Head(db_preset),
                                  setattrs(Head(db_preset), preset_update), t) IN
              Response(OK, <<row>>, put(d, "visualization_presets", row))

delete_visualization_preset(d, token, preset_id) ==
    LET auth == get_current_admin_user(d, token) IN
    IF auth.status # OK THEN HTTPException(d, auth.status)
    ELSE LET db_preset == SelectSeq(d.visualization_presets,
                                    LAMBDA r : r.id = preset_id) IN
         IF db_preset = <<>> THEN HTTPException(d, NotFound)
         ELSE Response(NoContent, <<>>,
                       delete(d, "visualization_presets", preset_id))

(* intensity is the drawn value; visualization_type and parameters are not
   kept *)
simulate_visualization_event(d, token, event_id, intensity) ==
    LET auth == get_current_active_user(d, token) IN
    IF auth.status # OK THEN HTTPException(d, auth.status)
    ELSE LET event == SelectSeq(d.events, LAMBDA r : r.id = event_id) IN
         IF event = <<>> THEN HTTPException(d, NotFound)
         ELSE LET visualization_event ==
                      VisualizationEvent(NextId(d.visualization_events),
                                         event_id, intensity)
              IN  Response(OK, <<visualization_event>>,
                           add(d, "visualization_events", visualization_event))

(***************************************************************************)
(* Requests.  The inputs of the handlers are drawn from these sets.        *)
(***************************************************************************)
UserIds == {1, 2, 3}
Tokens == UserIds \cup {NoCredential}

EventIdInputs == 1 .. (MaxEvents + 1)
RowIdInputs == 1 .. MaxRows
UserIdInputs == {2, 3, 4}
UserIdParams == {None, 2, 3}
DeviceIdInputs == {1, 2}
MovementDataIdInputs == {None, 0, 1, 2}
BoolInputs == {False, True}
BoolParams == {None, False, True}
TimeUpdates == {None, 1}
ValueInputs == {1}
ValueUpdates == {None, 0}
(* np.random.uniform(0, 1) draws from the half-open interval [0, 1) *)
EnergyLevels == {0, Scale \div 2, Scale - 1}

(* the partial payloads whose fields take their values in values[field] *)
PayloadsOf(values) ==
    UNION {{p \in [S -> UNION {values[f] : f \in S}] :
               \A f \in S : p[f] \in values[f]} : S \in SUBSET DOMAIN values}

EventUpdate == PayloadsOf([is_active |-> BoolParams])

UserEventUpdate ==
    PayloadsOf([checkin_time |-> TimeUpdates, checkout_time |-> TimeUpdates,
                is_active |-> BoolParams])

BiometricDataUpdate == PayloadsOf([heart_rate |-> ValueUpdates])

BiometricDeviceUpdate ==
    PayloadsOf([device_type |-> {2}, is_active |-> {False}])

MovementDataUpdate == PayloadsOf([velocity |-> ValueUpdates])

MovementPatternUpdate == PayloadsOf([name |-> ValueUpdates])

SoundEventUpdate == PayloadsOf([intensity |-> ValueUpdates])

SongSelectionUpdate ==
    PayloadsOf([audio_features |-> {2}, is_approved |-> BoolParams])

SoundPresetUpdate == PayloadsOf([name |-> ValueUpdates])

VisualizationEventUpdate == PayloadsOf([intensity |-> ValueUpdates])

VisualizationPresetUpdate == PayloadsOf([name |-> ValueUpdates])

(* rows of the tables that grow through the endpoints, events aside *)
Rows(d) ==
    Len(d.user_events) + Len(d.biometric_data) + Len(d.biometric_devices)
    + Len(d.movement_data) + Len(d.movement_patterns)
    + Len(d.detected_patterns) + Len(d.sound_events) + Len(d.song_selections)
    + Len(d.sound_presets) + Len(d.visualization_events)
    + Len(d.visualization_presets)

(* the bound on the store: table t has room for a row while the store holds
   fewer than cap rows outside users and events, or fewer than MaxEvents
   events, and the id the row gets is within the same bound *)
Room(t, cap) ==
    IF t = "events"
    THEN NextId(db.events) <= MaxEvents
    ELSE Rows(db) < cap /\ NextId(db[t]) <= cap

Idle == [op |-> "idle", token |-> NoCredential, req |-> <<>>, status |-> 0,
         body |-> <<>>]

(* one request: the handler runs against the store and its response is
   returned; t is the clock after the request. A request is taken when the
   previous one has completed (resp = Idle) *)
Handle(op, token, req, r, t) ==
    /\ db' = r.db
    /\ resp' = [op |-> op, token |-> token, req |-> req, status |-> r.status,
                body |-> r.body]
    /\ now' = t
    /\ UNCHANGED inflight

(* one request that inserts a row into table t when it succeeds: it is made
   when it fails or the table has room *)
Insert(t, cap, op, token, req, r, now_) ==
    /\ r.status # OK \/ Room(t, cap)
    /\ Handle(op, token, req, r, now_)

(* the clock values a request that calls datetime.utcnow() may read *)
Clock == now .. Min(now + 1, MaxTime)

(* get_db: the session is closed when the request completes *)
Close ==
    /\ resp # Idle
    /\ resp' = Idle
    /\ UNCHANGED <<db, now, inflight>>

(* ------------------------------ events ------------------------------ *)
CreateEvent ==
    /\ resp = Idle
    /\ \E token \in Tokens :
           LET event == [is_active |-> False] IN
           Insert("events", MaxRows, "create_event", token, event,
                  create_event(db, token, event), now)

ReadEvents ==
    /\ resp = Idle
    /\ \E token \in Tokens, a \in {None, True} :
           Handle("read_events", token, [is_active |-> a, skip |-> 0],
                  read_events(db, token, a, 0, DefaultLimit), now)

ReadEvent ==
    /\ resp = Idle
    /\ \E token \in Tokens, id \in EventIdInputs :
           Handle("read_event", token, [id |-> id],
                  read_event(db, token, id), now)

UpdateEvent ==
    /\ resp = Idle
    /\ \E token \in Tokens, id \in EventIdInputs, p \in EventUpdate,
          t \in Clock :
           Handle("update_event", token, [id |-> id, payload |-> p],
                  update_event(db, token, id, p, t), t)

DeleteEvent ==
    /\ resp = Idle
    /\ \E token \in Tokens, id \in EventIdInputs :
           Handle("delete_event", token, [id |-> id],
                  delete_event(db, token, id), now)

RegisterForEvent(cap) ==
    /\ resp = Idle
    /\ \E token \in Tokens, u \in UserIdInputs, e \in EventIdInputs,
           a \in BoolInputs, t \in Clock :
           LET user_event == [user_id |-> u, event_id |-> e, is_active |-> a] IN
           Insert("user_events", cap, "register_for_event", token, user_event,
                  register_for_event(db, token, user_event, t), t)

ReadEventRegistrations ==
    /\ resp = Idle
    /\ \E token \in Tokens, e \in {None, 1}, u \in UserIdParams,
          a \in {None} :
           Handle("read_event_registrations", token,
                  [event_id |-> e, user_id |-> u, is_active |-> a, skip |-> 0],
                  read_event_registrations(db, token, e, u, a, 0, DefaultLimit),
                  now)

UpdateEventRegistration ==
    /\ resp = Idle
    /\ \E token \in Tokens, id \in RowIdInputs, p \in UserEventUpdate :
           Handle("update_event_registration", token,
                  [id |-> id, payload |-> p],
                  update_event_registration(db, token, id, p), now)

DeleteEventRegistration ==
    /\ resp = Idle
    /\ \E token \in Tokens, id \in RowIdInputs :
           Handle("delete_event_registration", token, [id |-> id],
                  delete_event_registration(db, token, id), now)

CheckinToEvent ==
    /\ resp = Idle
    /\ \E token \in Tokens, e \in EventIdInputs, u \in UserIdParams, t \in Clock :
           Handle("checkin_to_event", token, [event_id |-> e, user_id |-> u],
                  checkin_to_event(db, token, e, u, t), t)

CheckoutFromEvent ==
    /\ resp = Idle
    /\ \E token \in Tokens, e \in EventIdInputs, u \in UserIdParams, t \in Clock :
           Handle("checkout_from_event", token, [event_id |-> e, user_id |-> u],
                  checkout_from_event(db, token, e, u, t), t)

(* a GET request sent to the events router *)
GetPaths == {<<>>, <<"1">>, <<"2">>, <<"registrations">>, <<"upcoming">>}

(* the events in the window of read_upcoming_events, by start_time *)
Windows == {<<>>, <<1>>, <<2, 1>>}

GetEventsRouter ==
    /\ resp = Idle
    /\ \E token \in Tokens, path \in GetPaths, window \in Windows :
           /\ path # <<"upcoming">> => window = <<>>
           /\ Handle("GET /api/v1/events", token,
                     [path |-> path, window |-> window],
                     get_events_router(db, token, path, window), now)

(* ---------------------------- biometrics ---------------------------- *)
CreateBiometricData(cap) ==
    /\ resp = Idle
    /\ \E token \in Tokens, u \in UserIdInputs, e \in EventIdInputs,
           h \in ValueInputs :
           LET biometric_data ==
                   [user_id |-> u, event_id |-> e, device_id |-> 1,
                    heart_rate |-> h, energy_level |-> None,
                    emotional_state |-> None] IN
           Insert("biometric_data", cap, "create_biometric_data",
                  token, biometric_data,
                  create_biometric_data(db, token, biometric_data), now)

ReadBiometricData ==
    /\ resp = Idle
    /\ \E token \in Tokens, u \in UserIdParams, e \in {None, 1},
          dev \in {None} :
           Handle("read_biometric_data", token,
                  [user_id |-> u, event_id |-> e, device_id |-> dev,
                   skip |-> 0],
                  read_biometric_data(db, token, u, e, dev, 0, DefaultLimit),
                  now)

ReadBiometricDataById ==
    /\ resp = Idle
    /\ \E token \in Tokens, id \in RowIdInputs :
           Handle("read_biometric_data_by_id", token, [id |-> id],
                  read_biometric_data_by_id(db, token, id), now)

UpdateBiometricData ==
    /\ resp = Idle
    /\ \E token \in Tokens, id \in RowIdInputs, p \in BiometricDataUpdate :
           Handle("update_biometric_data", token, [id |-> id, payload |-> p],
                  update_biometric_data(db, token, id, p), now)

DeleteBiometricData ==
    /\ resp = Idle
    /\ \E token \in Tokens, id \in RowIdInputs :
           Handle("delete_biometric_data", token, [id |-> id],
                  delete_biometric_data(db, token, id), now)

CreateBiometricDevice(cap) ==
    /\ resp = Idle
    /\ \E token \in Tokens, dev \in DeviceIdInputs :
           LET device == [device_id |-> dev, device_type |-> 1,
                          is_active |-> True] IN
           Insert("biometric_devices", cap, "create_biometric_device",
                  token, device,
                  create_biometric_device(db, token, device), now)

ReadBiometricDevices ==
    /\ resp = Idle
    /\ \E token \in Tokens, a \in {None, True} :
           Handle("read_biometric_devices", token,
                  [is_active |-> a, skip |-> 0],
                  read_biometric_devices(db, token, a, 0, DefaultLimit), now)

ReadBiometricDevice ==
    /\ resp = Idle
    /\ \E token \in Tokens, dev \in DeviceIdInputs :
           Handle("read_biometric_device", token, [device_id |-> dev],
                  read_biometric_device(db, token, dev), now)

UpdateBiometricDevice ==
    /\ resp = Idle
    /\ \E token \in Tokens, dev \in DeviceIdInputs, p \in BiometricDeviceUpdate,
          t \in Clock :
           Handle("update_biometric_device", token,
                  [device_id |-> dev, payload |-> p],
                  update_biometric_device(db, token, dev, p, t), t)

DeleteBiometricDevice ==
    /\ resp = Idle
    /\ \E token \in Tokens, dev \in DeviceIdInputs :
           Handle("delete_biometric_device", token, [device_id |-> dev],
                  delete_biometric_device(db, token, dev), now)

SimulateBiometricData(cap) ==
    /\ resp = Idle
    /\ \E token \in Tokens, u \in UserIdInputs, e \in EventIdInputs,
           h \in ValueInputs, energy \in EnergyLevels :
           Insert("biometric_data", cap, "simulate_biometric_data", token,
                  [user_id |-> u, event_id |-> e, device_id |-> 1],
                  simulate_biometric_data(db, token, u, e, 1, h, energy), now)

(* the mapping of simulate_biometric_data from energy_level to
   emotional_state, applied to a value of the closed interval [0, 1] *)
EmotionalState ==
    /\ resp = Idle
    /\ \E energy_level \in 0..Scale :
          LET emotional_state == emotional_state_of(energy_level) IN
          resp' = [op |-> "emotional_state", token |-> NoCredential,
                   req |-> [energy_level |-> energy_level],
                   status |-> IF emotional_state = IndexError
                              THEN InternalServerError ELSE OK,
                   body |-> <<emotional_state>>]
    /\ UNCHANGED <<db, now, inflight>>

(* ----------------------------- movement ----------------------------- *)
CreateMovementData(cap) ==
    /\ resp = Idle
    /\ \E token \in Tokens, e \in EventIdInputs, v \in ValueInputs :
           LET movement_data == [event_id |-> e, velocity |-> v] IN
           Insert("movement_data", cap, "create_movement_data",
                  token, movement_data,
                  create_movement_data(db, token, movement_data), now)

ReadMovementData ==
    /\ resp = Idle
    /\ \E token \in Tokens, e \in {None, 1} :
           Handle("read_movement_data", token, [event_id |-> e, skip |-> 0],
                  read_movement_data(db, token, e, 0, DefaultLimit), now)

ReadMovementDataById ==
    /\ resp = Idle
    /\ \E token \in Tokens, id \in RowIdInputs :
           Handle("read_movement_data_by_id", token, [id |-> id],
                  read_movement_data_by_id(db, token, id), now)

UpdateMovementData ==
    /\ resp = Idle
    /\ \E token \in Tokens, id \in RowIdInputs, p \in MovementDataUpdate :
           Handle("update_movement_data", token, [id |-> id, payload |-> p],
                  update_movement_data(db, token, id, p), now)

DeleteMovementData ==
    /\ resp = Idle
    /\ \E token \in Tokens, id \in RowIdInputs :
           Handle("delete_movement_data", token, [id |-> id],
                  delete_movement_data(db, token, id), now)

CreateMovementPattern(cap) ==
    /\ resp = Idle
    /\ \E token \in Tokens, n \in ValueInputs :
           LET pattern == [name |-> n] IN
           Insert("movement_patterns", cap, "create_movement_pattern",
                  token, pattern,
                  create_movement_pattern(db, token, pattern), now)

ReadMovementPatterns ==
    /\ resp = Idle
    /\ \E token \in Tokens :
           Handle("read_movement_patterns", token, [skip |-> 0],
                  read_movement_patterns(db, token, 0, DefaultLimit), now)

ReadMovementPattern ==
    /\ resp = Idle
    /\ \E token \in Tokens, id \in RowIdInputs :
           Handle("read_movement_pattern", token, [id |-> id],
                  read_movement_pattern(db, token, id), now)

UpdateMovementPattern ==
    /\ resp = Idle
    /\ \E token \in Tokens, id \in RowIdInputs, p \in MovementPatternUpdate,
          t \in Clock :
           Handle("update_movement_pattern", token, [id |-> id, payload |-> p],
                  update_movement_pattern(db, token, id, p, t), t)

DeleteMovementPattern ==
    /\ resp = Idle
    /\ \E token \in Tokens, id \in RowIdInputs :
           Handle("delete_movement_pattern", token, [id |-> id],
                  delete_movement_pattern(db, token, id), now)

CreateDetectedPattern(cap) ==
    /\ resp = Idle
    /\ \E token \in Tokens, pid \in RowIdInputs, e \in EventIdInputs :
           LET detected_pattern == [pattern_id |-> pid, event_id |-> e] IN
           Insert("detected_patterns", cap, "create_detected_pattern",
                  token, detected_pattern,
                  create_detected_pattern(db, token, detected_pattern), now)

ReadDetectedPatterns ==
    /\ resp = Idle
    /\ \E token \in Tokens, e \in {None, 1}, pid \in {None} :
           Handle("read_detected_patterns", token,
                  [event_id |-> e, pattern_id |-> pid, skip |-> 0],
                  read_detected_patterns(db, token, e, pid, 0, DefaultLimit),
                  now)

SimulateMovementData(cap) ==
    /\ resp = Idle
    /\ \E token \in Tokens, e \in EventIdInputs, v \in ValueInputs :
           Insert("movement_data", cap, "simulate_movement_data",
                  token, [event_id |-> e],
                  simulate_movement_data(db, token, e, v), now)

(* ------------------------------ sound ------------------------------- *)
CreateSoundEvent(cap) ==
    /\ resp = Idle
    /\ \E token \in Tokens, e \in EventIdInputs, m \in MovementDataIdInputs,
           i \in ValueInputs :
           LET sound_event == [event_id |-> e, movement_data_id |-> m,
                               intensity |-> i] IN
           Insert("sound_events", cap, "create_sound_event", token, sound_event,
                  create_sound_event(db, token, sound_event), now)

ReadSoundEvents ==
    /\ resp = Idle
    /\ \E token \in Tokens, e \in {None, 1} :
           Handle("read_sound_events", token, [event_id |-> e, skip |-> 0],
                  read_sound_events(db, token, e, 0, DefaultLimit), now)

ReadSoundEvent ==
    /\ resp = Idle
    /\ \E token \in Tokens, id \in RowIdInputs :
           Handle("read_sound_event", token, [id |-> id],
                  read_sound_event(db, token, id), now)

UpdateSoundEvent ==
    /\ resp = Idle
    /\ \E token \in Tokens, id \in RowIdInputs, p \in SoundEventUpdate :
           Handle("update_sound_event", token, [id |-> id, payload |-> p],
                  update_sound_event(db, token, id, p), now)

DeleteSoundEvent ==
    /\ resp = Idle
    /\ \E token \in Tokens, id \in RowIdInputs :
           Handle("delete_sound_event", token, [id |-> id],
                  delete_sound_event(db, token, id), now)

CreateSongSelection(cap) ==
    /\ resp = Idle
    /\ \E token \in Tokens, u \in UserIdInputs, e \in EventIdInputs,
           f \in ValueInputs, a \in BoolInputs :
           LET song == [user_id |-> u, event_id |-> e, audio_features |-> f,
                        is_approved |-> a] IN
           Insert("song_selections", cap, "create_song_selection", token, song,
                  create_song_selection(db, token, song), now)

ReadSongSelections ==
    /\ resp = Idle
    /\ \E token \in Tokens, u \in UserIdParams, e \in {None, 1},
          a \in {None} :
           Handle("read_song_selections", token,
                  [user_id |-> u, event_id |-> e, is_approved |-> a,
                   skip |-> 0],
                  read_song_selections(db, token, u, e, a, 0, DefaultLimit),
                  now)

ReadSongSelection ==
    /\ resp = Idle
    /\ \E token \in Tokens, id \in RowIdInputs :
           Handle("read_song_selection", token, [id |-> id],
                  read_song_selection(db, token, id), now)

UpdateSongSelection ==
    /\ resp = Idle
    /\ \E token \in Tokens, id \in RowIdInputs, p \in SongSelectionUpdate :
           Handle("update_song_selection", token, [id |-> id, payload |-> p],
                  update_song_selection(db, token, id, p), now)

DeleteSongSelection ==
    /\ resp = Idle
    /\ \E token \in Tokens, id \in RowIdInputs :
           Handle("delete_song_selection", token, [id |-> id],
                  delete_song_selection(db, token, id), now)

CreateSoundPreset(cap) ==
    /\ resp = Idle
    /\ \E token \in Tokens, n \in ValueInputs :
           LET preset == [name |-> n] IN
           Insert("sound_presets", cap, "create_sound_preset", token, preset,
                  create_sound_preset(db, token, preset), now)

ReadSoundPresets ==
    /\ resp = Idle
    /\ \E token \in Tokens :
           Handle("read_sound_presets", token, [skip |-> 0],
                  read_sound_presets(db, token, 0, DefaultLimit), now)

ReadSoundPreset ==
    /\ resp = Idle
    /\ \E token \in Tokens, id \in RowIdInputs :
           Handle("read_sound_preset", token, [id |-> id],
                  read_sound_preset(db, token, id), now)

UpdateSoundPreset ==
    /\ resp = Idle
    /\ \E token \in Tokens, id \in RowIdInputs, p \in SoundPresetUpdate,
          t \in Clock :
           Handle("update_sound_preset", token, [id |-> id, payload |-> p],
                  update_sound_preset(db, token, id, p, t), t)

DeleteSoundPreset ==
    /\ resp = Idle
    /\ \E token \in Tokens, id \in RowIdInputs :
           Handle("delete_sound_preset", token, [id |-> id],
                  delete_sound_preset(db, token, id), now)

SimulateSoundEvent(cap) ==
    /\ resp = Idle
    /\ \E token \in Tokens, e \in EventIdInputs, m \in MovementDataIdInputs,
           i \in ValueInputs :
           Insert("sound_events", cap, "simulate_sound_event", token,
                  [event_id |-> e, movement_data_id |-> m],
                  simulate_sound_event(db, token, e, m, i), now)

(* --------------------------- visualization -------------------------- *)
CreateVisualizationEvent(cap) ==
    /\ resp = Idle
    /\ \E token \in Tokens, e \in EventIdInputs, i \in ValueInputs :
           LET visualization_event == [event_id |-> e, intensity |-> i] IN
           Insert("visualization_events", cap, "create_visualization_event",
                  token, visualization_event,
                  create_visualization_event(db, token, visualization_event),
                  now)

ReadVisualizationEvents ==
    /\ resp = Idle
    /\ \E token \in Tokens, e \in {None, 1} :
           Handle("read_visualization_events", token,
                  [event_id |-> e, skip |-> 0],
                  read_visualization_events(db, token, e, 0, DefaultLimit),
                  now)

ReadVisualizationEvent ==
    /\ resp = Idle
    /\ \E token \in Tokens, id \in RowIdInputs :
           Handle("read_visualization_event", token, [id |-> id],
                  read_visualization_event(db, token, id), now)

UpdateVisualizationEvent ==
    /\ resp = Idle
    /\ \E token \in Tokens, id \in RowIdInputs, p \in VisualizationEventUpdate :
           Handle("update_visualization_event", token, [id |-> id, payload |-> p],
                  update_visualization_event(db, token, id, p), now)

DeleteVisualizationEvent ==
    /\ resp = Idle
    /\ \E token \in Tokens, id \in RowIdInputs :
           Handle("delete_visualization_event", token, [id |-> id],
                  delete_visualization_event(db, token, id), now)

CreateVisualizationPreset(cap) ==
    /\ resp = Idle
    /\ \E token \in Tokens, n \in ValueInputs :
           LET preset == [name |-> n] IN
           Insert("visualization_presets", cap, "create_visualization_preset",
                  token, preset,
                  create_visualization_preset(db, token, preset), now)

ReadVisualizationPresets ==
    /\ resp = Idle
    /\ \E token \in Tokens :
           Handle("read_visualization_presets", token, [skip |-> 0],
                  read_visualization_presets(db, token, 0, DefaultLimit), now)

ReadVisualizationPreset ==
    /\ resp = Idle
    /\ \E token \in Tokens, id \in RowIdInputs :
           Handle("read_visualization_preset", token, [id |-> id],
                  read_visualization_preset(db, token, id), now)

UpdateVisualizationPreset ==
    /\ resp = Idle
    /\ \E token \in Tokens, id \in RowIdInputs, p \in VisualizationPresetUpdate,
          t \in Clock :
           Handle("update_visualization_preset", token,
                  [id |-> id, payload |-> p],
                  update_visualization_preset(db, token, id, p, t), t)

DeleteVisualizationPreset ==
    /\ resp = Idle
    /\ \E token \in Tokens, id \in RowIdInputs :
           Handle("delete_visualization_preset", token, [id |-> id],
                  delete_visualization_preset(db, token, id), now)

SimulateVisualizationEvent(cap) ==
    /\ resp = Idle
    /\ \E token \in Tokens, e \in EventIdInputs, i \in ValueInputs :
           Insert("visualization_events", cap, "simulate_visualization_event",
                  token, [event_id |-> e],
                  simulate_visualization_event(db, token, e, i), now)

(***************************************************************************)
(* register_for_event in NumProcs server processes on one store.  A        *)
(* process runs the queries of lines 141-165 in one step and the insert    *)
(* and commit of lines 167-172 in a later one; steps of other processes    *)
(* may come between the two.  As for the other actions, a step is taken    *)
(* when the response of the previous step has been delivered.              *)
(***************************************************************************)
Procs == 1 .. NumProcs

NoRequest == [pc |-> "idle"]

(* the requests that have passed their checks and not yet inserted *)
Pending == {p \in Procs : inflight[p] # NoRequest}

RegisterCheck(p) ==
    /\ resp = Idle
    /\ inflight[p] = NoRequest
    /\ \E token \in Tokens, u \in UserIdInputs, e \in EventIdInputs,
           a \in BoolInputs :
           LET user_event == [user_id |-> u, event_id |-> e, is_active |-> a]
               auth == get_current_active_user(db, token)
               checked == IF auth.status # OK THEN auth.status
                          ELSE register_checks(db, auth.user, user_event)
           IN  IF checked # OK
               THEN /\ resp' = [op |-> "register_for_event", token |-> token,
                                req |-> user_event, status |-> checked,
                                body |-> <<>>]
                    /\ UNCHANGED inflight
               ELSE /\ Len(db.user_events) + Cardinality(Pending) < MaxRows
                    /\ inflight' = [inflight EXCEPT ![p] =
                                        [pc |-> "insert", token |-> token,
                                         user_event |-> user_event]]
                    /\ UNCHANGED resp
    /\ UNCHANGED <<db, now>>

RegisterInsert(p) ==
    /\ resp = Idle
    /\ inflight[p] # NoRequest
    /\ LET r == register_insert(db, inflight[p].user_event, now) IN
       /\ db' = r.db
       /\ resp' = [op |-> "register_for_event", token |-> inflight[p].token,
                   req |-> inflight[p].user_event, status |-> r.status,
                   body |-> r.body]
    /\ inflight' = [inflight EXCEPT ![p] = NoRequest]
    /\ UNCHANGED now

(***************************************************************************)
(* The initial state: the tables created by init_db, holding the initial   *)
(* admin and two registered users; no request in progress.                 *)
(***************************************************************************)
Init ==
    /\ db = add(add(init_db([t \in TableNames |-> <<>>]).db,
                    "users", User(2, "ada", "ada-secret", False)),
                "users", User(3, "bo", "bo-secret", False))
    /\ resp = Idle
    /\ now = 1
    /\ inflight = [p \in Procs |-> NoRequest]

(* the registration endpoints *)
RegistrationNext ==
    \/ Close
    \/ CreateEvent
    \/ RegisterForEvent(MaxRows)
    \/ ReadEventRegistrations
    \/ UpdateEventRegistration
    \/ DeleteEventRegistration
    \/ CheckinToEvent
    \/ CheckoutFromEvent

SpecRegistration == Init /\ [][RegistrationNext]_vars

(* registration, check-in and check-out: every registration in the store is
   as its register request and the check-ins and check-outs left it *)
CheckinNext ==
    \/ Close
    \/ CreateEvent
    \/ RegisterForEvent(MaxRows)
    \/ CheckinToEvent
    \/ CheckoutFromEvent

SpecCheckin == Init /\ [][CheckinNext]_vars

(* the way of a user through an event: registration, check-in, check-out,
   and the GET requests of the events router *)
JourneyNext ==
    \/ Close
    \/ CreateEvent
    \/ RegisterForEvent(MaxRows)
    \/ CheckinToEvent
    \/ CheckoutFromEvent
    \/ GetEventsRouter

SpecJourney == Init /\ [][JourneyNext]_vars

(* registration requests in concurrent processes *)
RaceNext ==
    \/ Close
    \/ CreateEvent
    \/ \E p \in Procs : RegisterCheck(p)
    \/ \E p \in Procs : RegisterInsert(p)

SpecRace == Init /\ [][RaceNext]_vars

(* the list endpoints of the user-scoped resources *)
ListsNext ==
    \/ Close
    \/ CreateEvent
    \/ DeleteEvent
    \/ CreateBiometricData(MaxRows)
    \/ SimulateBiometricData(MaxRows)
    \/ CreateSongSelection(MaxRows)
    \/ RegisterForEvent(MaxRows)
    \/ ReadBiometricData
    \/ ReadSongSelections
    \/ ReadEventRegistrations
    \/ DeleteBiometricData
    \/ DeleteSongSelection
    \/ DeleteEventRegistration

SpecLists == Init /\ [][ListsNext]_vars

(* the endpoints that address one row of a user-scoped resource *)
ByIdNext ==
    \/ Close
    \/ CreateEvent
    \/ CreateBiometricData(MaxRows)
    \/ CreateSongSelection(MaxRows)
    \/ RegisterForEvent(MaxRows)
    \/ ReadBiometricDataById
    \/ UpdateBiometricData
    \/ DeleteBiometricData
    \/ ReadSongSelection
    \/ UpdateSongSelection
    \/ DeleteSongSelection
    \/ UpdateEventRegistration
    \/ DeleteEventRegistration

SpecById == Init /\ [][ByIdNext]_vars

(* the endpoints that write the admin-only resources *)
AdminNext ==
    \/ Close
    \/ CreateEvent
    \/ UpdateEvent
    \/ DeleteEvent
    \/ CreateBiometricDevice(MaxRows)
    \/ UpdateBiometricDevice
    \/ DeleteBiometricDevice
    \/ CreateMovementPattern(MaxRows)
    \/ UpdateMovementPattern
    \/ DeleteMovementPattern
    \/ CreateSoundPreset(MaxRows)
    \/ UpdateSoundPreset
    \/ DeleteSoundPreset
    \/ CreateVisualizationPreset(MaxRows)
    \/ UpdateVisualizationPreset
    \/ DeleteVisualizationPreset

SpecAdmin == Init /\ [][AdminNext]_vars

(* the device endpoints that write *)
DevicesNext ==
    \/ Close
    \/ CreateBiometricDevice(MaxRows)
    \/ UpdateBiometricDevice
    \/ DeleteBiometricDevice

SpecDevices == Init /\ [][DevicesNext]_vars

(* the simulation of biometric data and its mapping to emotional_state *)
SimulateNext ==
    \/ Close
    \/ CreateEvent
    \/ SimulateBiometricData(MaxRows)
    \/ EmotionalState

SpecSimulate == Init /\ [][SimulateNext]_vars

(* the song selection endpoints *)
SongsNext ==
    \/ Close
    \/ CreateEvent
    \/ CreateSongSelection(MaxRows)
    \/ ReadSongSelections
    \/ ReadSongSelection
    \/ UpdateSongSelection
    \/ DeleteSongSelection

SpecSongs == Init /\ [][SongsNext]_vars

(* the endpoints that insert a row holding a reference, and those that
   insert or delete the rows referred to *)
CreateNext ==
    \/ Close
    \/ CreateEvent
    \/ DeleteEvent
    \/ CreateMovementPattern(MaxRows)
    \/ DeleteMovementPattern
    \/ CreateMovementData(MaxRows)
    \/ DeleteMovementData
    \/ SimulateMovementData(MaxRows)
    \/ CreateDetectedPattern(MaxRows)
    \/ CreateSoundEvent(MaxRows)
    \/ SimulateSoundEvent(MaxRows)
    \/ CreateBiometricData(MaxRows)
    \/ SimulateBiometricData(MaxRows)
    \/ CreateSongSelection(MaxRows)
    \/ RegisterForEvent(MaxRows)
    \/ CreateVisualizationEvent(MaxRows)
    \/ SimulateVisualizationEvent(MaxRows)

SpecCreate == Init /\ [][CreateNext]_vars

(* the update endpoints of the ten tables that are merged from a payload
   alone, and the endpoints that create their rows: up to MaxRows
   movement patterns, and AllRows rows of the other tables *)
UpdatesNext ==
    \/ Close
    \/ CreateEvent
    \/ UpdateEvent
    \/ RegisterForEvent(AllRows)
    \/ UpdateEventRegistration
    \/ CreateBiometricData(AllRows)
    \/ UpdateBiometricData
    \/ CreateMovementData(AllRows)
    \/ UpdateMovementData
    \/ CreateMovementPattern(MaxRows)
    \/ UpdateMovementPattern
    \/ CreateSoundEvent(AllRows)
    \/ UpdateSoundEvent
    \/ CreateSongSelection(AllRows)
    \/ UpdateSongSelection
    \/ CreateSoundPreset(AllRows)
    \/ UpdateSoundPreset
    \/ CreateVisualizationEvent(AllRows)
    \/ UpdateVisualizationEvent
    \/ CreateVisualizationPreset(AllRows)
    \/ UpdateVisualizationPreset

SpecUpdates == Init /\ [][UpdatesNext]_vars

(* every modelled handler, one request at a time *)
Next ==
    \/ Close
    \/ CreateEvent
    \/ ReadEvents
    \/ ReadEvent
    \/ UpdateEvent
    \/ DeleteEvent
    \/ RegisterForEvent(AllRows)
    \/ ReadEventRegistrations
    \/ UpdateEventRegistration
    \/ DeleteEventRegistration
    \/ CheckinToEvent
    \/ CheckoutFromEvent
    \/ CreateBiometricData(AllRows)
    \/ ReadBiometricData
    \/ ReadBiometricDataById
    \/ UpdateBiometricData
    \/ DeleteBiometricData
    \/ CreateBiometricDevice(AllRows)
    \/ ReadBiometricDevices
    \/ ReadBiometricDevice
    \/ UpdateBiometricDevice
    \/ DeleteBiometricDevice
    \/ SimulateBiometricData(AllRows)
    \/ CreateMovementData(AllRows)
    \/ ReadMovementData
    \/ ReadMovementDataById
    \/ UpdateMovementData
    \/ DeleteMovementData
    \/ CreateMovementPattern(AllRows)
    \/ ReadMovementPatterns
    \/ ReadMovementPattern
    \/ UpdateMovementPattern
    \/ DeleteMovementPattern
    \/ CreateDetectedPattern(AllRows)
    \/ ReadDetectedPatterns
    \/ SimulateMovementData(AllRows)
    \/ CreateSoundEvent(AllRows)
    \/ ReadSoundEvents
    \/ ReadSoundEvent
    \/ UpdateSoundEvent
    \/ DeleteSoundEvent
    \/ CreateSongSelection(AllRows)
    \/ ReadSongSelections
    \/ ReadSongSelection
    \/ UpdateSongSelection
    \/ DeleteSongSelection
    \/ CreateSoundPreset(AllRows)
    \/ ReadSoundPresets
    \/ ReadSoundPreset
    \/ UpdateSoundPreset
    \/ DeleteSoundPreset
    \/ SimulateSoundEvent(AllRows)
    \/ CreateVisualizationEvent(AllRows)
    \/ ReadVisualizationEvents
    \/ ReadVisualizationEvent
    \/ UpdateVisualizationEvent
    \/ DeleteVisualizationEvent
    \/ CreateVisualizationPreset(AllRows)
    \/ ReadVisualizationPresets
    \/ ReadVisualizationPreset
    \/ UpdateVisualizationPreset
    \/ DeleteVisualizationPreset
    \/ SimulateVisualizationEvent(AllRows)

Spec == Init /\ [][Next]_vars

(***************************************************************************)
(* Properties                                                              *)
(***************************************************************************)
IsAdmin(token) ==
    \E i \in DOMAIN db.users :
        db.users[i].id = token /\ db.users[i].is_admin = True

(* the caller of the last request is an administrator *)
CallerIsAdmin == IsAdmin(resp.token)

ScopedLists ==
    {"read_biometric_data", "read_song_selections", "read_event_registrations"}

(* C1: a list of biometric data, song selections or registrations returned
   to a caller who is not an administrator holds only rows whose user_id is
   the caller's id, whatever user_id parameter the request carried *)
C1_NonAdminListsOwnRows ==
    (resp.op \in ScopedLists /\ resp.status = OK /\ ~CallerIsAdmin)
        => \A i \in DOMAIN resp.body : resp.body[i].user_id = resp.token

(* user 2 asks for the biometric data of user 3, who has a row, and gets
   the one row of their own *)
C1_Witness ==
    /\ resp.op = "read_biometric_data" /\ resp.status = OK
    /\ resp.token = 2 /\ resp.req.user_id = 3
    /\ \E i \in DOMAIN db.biometric_data : db.biometric_data[i].user_id = 3
    /\ Len(resp.body) = 1 /\ resp.body[1].user_id = 2

BiometricDataById ==
    {"read_biometric_data_by_id", "update_biometric_data",
     "delete_biometric_data"}

SongSelectionById ==
    {"read_song_selection", "update_song_selection", "delete_song_selection"}

UserEventById == {"update_event_registration", "delete_event_registration"}

ScopedById == BiometricDataById \cup SongSelectionById \cup UserEventById

ScopedTable(op) ==
    IF op \in BiometricDataById THEN "biometric_data"
    ELSE IF op \in SongSelectionById THEN "song_selections"
    ELSE "user_events"

(* C2: a get, update or delete by id on biometric data, a song selection or
   a registration, made by an authenticated caller, ends in NotFound when
   no row has that id, whoever the caller is; in Forbidden when the row
   exists and the caller is neither an administrator nor its owner; and
   otherwise passes the ownership check: it is not NotFound, and it is
   Forbidden only for a song update that carries is_approved *)
C2_ExistenceThenOwnership ==
    [][(resp'.op \in ScopedById /\ resp'.status # Unauthorized) =>
          LET row == SelectSeq(db[ScopedTable(resp'.op)],
                               LAMBDA r : r.id = resp'.req.id)
          IN  IF row = <<>> THEN resp'.status = NotFound
              ELSE IF ~IsAdmin(resp'.token)
                      /\ Head(row).user_id # resp'.token
              THEN resp'.status = Forbidden
              ELSE /\ resp'.status # NotFound
                   /\ resp'.status = Forbidden =>
                          /\ resp'.op = "update_song_selection"
                          /\ "is_approved" \in DOMAIN resp'.req.payload
      ]_vars

(* user 3 is refused the deletion of a song selection of user 2, and the
   row is still there *)
C2_Witness ==
    /\ resp.op = "delete_song_selection" /\ resp.status = Forbidden
    /\ resp.token = 3
    /\ \E i \in DOMAIN db.song_selections :
          /\ db.song_selections[i].id = resp.req.id
          /\ db.song_selections[i].user_id = 2

(* an authenticated caller with is_admin = false *)
NonAdmin(token) ==
    \E i \in DOMAIN db.users :
        db.users[i].id = token /\ db.users[i].is_admin = False

AdminOnlyTables ==
    {"biometric_devices", "movement_patterns", "sound_presets",
     "visualization_presets"}

AdminOnlyWrites ==
    {"create_event",
     "create_biometric_device", "update_biometric_device",
     "delete_biometric_device",
     "create_movement_pattern", "update_movement_pattern",
     "delete_movement_pattern",
     "create_sound_preset", "update_sound_preset", "delete_sound_preset",
     "create_visualization_preset", "update_visualization_preset",
     "delete_visualization_preset"}

(* C3: a create, update or delete of a biometric device, movement pattern,
   sound preset or visualization preset, and an event creation, made by a
   caller with is_admin = false ends in Forbidden and leaves the store as it
   was; and no request of such a caller changes one of these four tables or
   adds an event *)
C3_AdminOnlyWrites ==
    [][NonAdmin(resp'.token) =>
          /\ resp'.op \in AdminOnlyWrites =>
                 resp'.status = Forbidden /\ db' = db
          /\ \A t \in AdminOnlyTables : db'[t] = db[t]
          /\ Len(db'.events) <= Len(db.events)
      ]_vars

(* user 2 is refused the deletion of a movement pattern that exists *)
C3_Witness ==
    /\ resp.op = "delete_movement_pattern" /\ resp.status = Forbidden
    /\ resp.token = 2
    /\ \E i \in DOMAIN db.movement_patterns :
          db.movement_patterns[i].id = resp.req.id

(* C4: is_approved is set by administrators only: a request of a caller who
   is not an administrator leaves no song selection with a value of
   is_approved other than false, unless the row held that value before the
   request *)
C4_ApprovalOnlyByAdmin ==
    [][~IsAdmin(resp'.token) =>
          \A i \in DOMAIN db'.song_selections :
              LET song == db'.song_selections[i] IN
              song.is_approved # False =>
                  \E j \in DOMAIN db.song_selections :
                      /\ db.song_selections[j].id = song.id
                      /\ db.song_selections[j].is_approved = song.is_approved
      ]_vars

(* C5: an update of an existing song selection by a caller with
   is_admin = false whose payload holds the field is_approved, with any
   value, ends in Forbidden and leaves the store as it was *)
C5_ApprovalFieldRefused ==
    [][(/\ resp'.op = "update_song_selection"
        /\ NonAdmin(resp'.token)
        /\ "is_approved" \in DOMAIN resp'.req.payload
        /\ \E i \in DOMAIN db.song_selections :
              db.song_selections[i].id = resp'.req.id)
          => resp'.status = Forbidden /\ db' = db
      ]_vars

(* the active registrations of user u for event e in the store d *)
ActiveRegistrations(d, u, e) ==
    SelectSeq(d.user_events,
              LAMBDA r : r.user_id = u /\ r.event_id = e /\ r.is_active = True)

(* C6: with one request handled at a time, after any sequence of register,
   update-registration, delete-registration, check-in and check-out
   requests each (user_id, event_id) pair has at most one registration with
   is_active = true *)
C6_OneActiveRegistration ==
    \A u \in UserIdInputs, e \in EventIdInputs :
        Len(ActiveRegistrations(db, u, e)) <= 1

(* a registration is put back to active by an update while another
   registration is active too *)
C6_Witness ==
    /\ resp.op = "update_event_registration" /\ resp.status = OK
    /\ "is_active" \in DOMAIN resp.req.payload
    /\ resp.req.payload.is_active = True
    /\ Len(db.user_events) = 2
    /\ \A i \in DOMAIN db.user_events : db.user_events[i].is_active = True

(* C7: a register request for a pair that has an active registration adds
   no row and leaves the store as it was; it ends in Conflict when the
   caller is an administrator or the user to be registered, and in Forbidden
   or Unauthorized otherwise *)
C7_DuplicateRegistrationRefused ==
    [][(/\ resp'.op = "register_for_event"
        /\ ActiveRegistrations(db, resp'.req.user_id, resp'.req.event_id)
              # <<>>)
          => /\ db' = db
             /\ resp'.status \in {Conflict, Forbidden, Unauthorized}
             /\ (IsAdmin(resp'.token) \/ resp'.token = resp'.req.user_id)
                    => resp'.status = Conflict
      ]_vars

(* user 2, registered and active for an event, registers for it again and
   is refused *)
C7_Witness ==
    /\ resp.op = "register_for_event" /\ resp.status = Conflict
    /\ resp.token = 2 /\ resp.req.user_id = 2
    /\ Len(ActiveRegistrations(db, 2, resp.req.event_id)) = 1

(* C8: register requests handled concurrently race: a request that has
   passed the existing-registration check inserts its row and ends OK
   whatever the store holds by then, so two requests for one pair that both
   checked before either inserted both succeed; no lock and no uniqueness
   constraint stops the second insert *)
C8_CheckedRegistrationInserts ==
    [][\A p \in Procs :
          (inflight[p] # NoRequest /\ inflight'[p] = NoRequest) =>
              /\ resp'.status = OK
              /\ Len(db'.user_events) = Len(db.user_events) + 1
              /\ LET row == db'.user_events[Len(db'.user_events)] IN
                 /\ row.user_id = inflight[p].user_event.user_id
                 /\ row.event_id = inflight[p].user_event.event_id
                 /\ row.is_active = inflight[p].user_event.is_active
      ]_vars

(* the second of two raced requests has inserted: user 2 has two active
   registrations for event 1 *)
C8_Witness ==
    /\ resp.op = "register_for_event" /\ resp.status = OK
    /\ Len(ActiveRegistrations(db, 2, 1)) = 2

(* the request fields that refer to a row of another table *)
RefTable ==
    [user_id |-> "users", event_id |-> "events",
     pattern_id |-> "movement_patterns", movement_data_id |-> "movement_data"]

(* the references a request supplies for which the store d has no row *)
MissingRefs(d, req) ==
    {f \in DOMAIN req \cap DOMAIN RefTable :
        /\ req[f] # None
        /\ ~ \E i \in DOMAIN d[RefTable[f]] : d[RefTable[f]][i].id = req[f]}

InsertOps ==
    {"register_for_event", "create_biometric_data", "simulate_biometric_data",
     "create_movement_data", "simulate_movement_data",
     "create_detected_pattern", "create_sound_event", "simulate_sound_event",
     "create_song_selection", "create_visualization_event",
     "simulate_visualization_event"}

(* C9: a create, register or simulate request of an authenticated caller
   that supplies a user_id, event_id, pattern_id or movement_data_id, of any
   integer value, for which no row exists ends in NotFound and leaves the
   store as it was *)
C9_ReferencesResolved ==
    [][(/\ resp'.op \in InsertOps
        /\ resp'.status # Unauthorized
        /\ MissingRefs(db, resp'.req) # {})
          => resp'.status = NotFound /\ db' = db
      ]_vars

(* C10: a request that ends in NotFound, Forbidden, Conflict or Unauthorized
   leaves every table of the store as it was before the request *)
C10_ErrorsLeaveStoreUnchanged ==
    [][resp'.status \in Errors => db' = db]_vars

(* user 2 is refused an update of their own song selection that carries
   is_approved together with new audio_features, and the stored
   audio_features are the old ones *)
C10_Witness ==
    /\ resp.op = "update_song_selection" /\ resp.status = Forbidden
    /\ resp.token = 2
    /\ DOMAIN resp.req.payload = {"audio_features", "is_approved"}
    /\ \E i \in DOMAIN db.song_selections :
          /\ db.song_selections[i].id = resp.req.id
          /\ db.song_selections[i].user_id = 2
          /\ db.song_selections[i].audio_features
                # resp.req.payload.audio_features

(* the update endpoints that merge a payload into one row, and their table *)
UpdateTable ==
    [update_event |-> "events",
     update_event_registration |-> "user_events",
     update_biometric_data |-> "biometric_data",
     update_movement_data |-> "movement_data",
     update_movement_pattern |-> "movement_patterns",
     update_sound_event |-> "sound_events",
     update_sound_preset |-> "sound_presets",
     update_song_selection |-> "song_selections",
     update_visualization_event |-> "visualization_events",
     update_visualization_preset |-> "visualization_presets"]

(* the row of table t with the given id, in store d *)
RowById(d, t, id) == Head(SelectSeq(d[t], LAMBDA r : r.id = id))

(* the fields of a row that no payload can name and the store sets itself *)
StoreFields == {"updated_at"}

(* a successful update of op's table has merged the payload into the row on
   its fields outside the set exempt, and has left all other rows as they
   were *)
Merged(op, req, d, d2, exempt) ==
    LET t == UpdateTable[op]
        old == RowById(d, t, req.id)
        new == RowById(d2, t, req.id)
    IN  /\ \A f \in DOMAIN old \ exempt :
              new[f] = IF f \in DOMAIN req.payload THEN req.payload[f]
                       ELSE old[f]
        /\ Len(d2[t]) = Len(d[t])
        /\ \A i \in DOMAIN d[t] : d[t][i].id # req.id => d2[t][i] = d[t][i]
        /\ \A u \in TableNames \ {t} : d2[u] = d[u]

(* C11 as stated: a successful update of one of the ten tables writes
   exactly the fields present in the payload, a null or zero included, and
   leaves every field absent from the payload, and every other row,
   unchanged *)
C11_AbsentFieldsUnchanged ==
    [][(resp'.op \in DOMAIN UpdateTable /\ resp'.status = OK)
          => Merged(resp'.op, resp'.req, db, db', {})
      ]_vars

(* C11 amended: a successful update of one of the ten tables writes exactly
   the fields present in the payload, a null or zero included, and leaves
   every other row and every field absent from the payload unchanged, except
   updated_at of an event, movement pattern, sound preset or visualization
   preset, which is set to the time of the update when the update changes a
   field of the row and is left alone when it changes none *)
C11_PartialMerge ==
    [][(resp'.op \in DOMAIN UpdateTable /\ resp'.status = OK)
          => LET t == UpdateTable[resp'.op]
                 old == RowById(db, t, resp'.req.id)
                 new == RowById(db', t, resp'.req.id)
                 changed == \E f \in DOMAIN old \ StoreFields : new[f] # old[f]
             IN  /\ Merged(resp'.op, resp'.req, db, db', StoreFields)
                 /\ "updated_at" \in DOMAIN old =>
                       new.updated_at = IF changed THEN now'
                                        ELSE old.updated_at
      ]_vars

(* a registration whose checkout_time is set has been updated with a payload
   that names checkin_time alone, as null: its checkin_time is null and its
   checkout_time is still set *)
C11_Witness ==
    /\ resp.op = "update_event_registration" /\ resp.status = OK
    /\ DOMAIN resp.req.payload = {"checkin_time"}
    /\ resp.req.payload.checkin_time = None
    /\ \E i \in DOMAIN db.user_events :
          /\ db.user_events[i].id = resp.req.id
          /\ db.user_events[i].checkin_time = None
          /\ db.user_events[i].checkout_time # None

(* the user a check-in or check-out request is for: the user_id parameter,
   or the caller when it is omitted *)
Subject(r) == IF r.req.user_id = None THEN r.token ELSE r.req.user_id

(* the registrations of user u for event e in the store d *)
Registrations(d, u, e) ==
    SelectSeq(d.user_events, LAMBDA r : r.user_id = u /\ r.event_id = e)

(* a check-in request for a pair (u, e), made by u or by an administrator *)
CheckinByOwnerOrAdmin(r) ==
    /\ r.op = "checkin_to_event"
    /\ r.token # NoCredential
    /\ IsAdmin(r.token) \/ Subject(r) = r.token

(* the store d2 is the store d with the one field of the registration row
   old set to the value t *)
OnlyFieldSet(d, d2, old, field, t) ==
    d2 = put(d, "user_events", [old EXCEPT ![field] = t])

(* C12 as stated: while no registration is deleted or updated, a check-in
   for a registered pair (u, e) by u or by an administrator succeeds, the
   first and every further one, and sets checkin_time to the time of the
   request, changing no other field of the registration *)
C12_CheckinAfterRegister ==
    [][(/\ CheckinByOwnerOrAdmin(resp')
        /\ Registrations(db, Subject(resp'), resp'.req.event_id) # <<>>)
          => /\ resp'.status = OK
             /\ OnlyFieldSet(db, db', Head(Registrations(db, Subject(resp'), resp'.req.event_id)), "checkin_time", now')
      ]_vars

(* the part of C12 that holds: while no registration is deleted or updated,
   a check-in for a pair (u, e) registered with is_active = true, made by u
   or by an administrator, succeeds, the first and every further one, and
   sets checkin_time to the time of the request, changing no other field of
   the registration *)
C12_CheckinAfterActiveRegister ==
    [][(/\ CheckinByOwnerOrAdmin(resp')
        /\ ActiveRegistrations(db, Subject(resp'), resp'.req.event_id) # <<>>)
          => /\ resp'.status = OK
             /\ OnlyFieldSet(db, db', Head(ActiveRegistrations(db, Subject(resp'), resp'.req.event_id)), "checkin_time", now')
      ]_vars

(* the administrator has checked user 2 in at time 2, and the registration
   of time 1 holds that checkin_time *)
C12_Witness ==
    /\ resp.op = "checkin_to_event" /\ resp.status = OK
    /\ resp.token = 1 /\ resp.req.user_id = 2
    /\ now = 2
    /\ \E i \in DOMAIN db.user_events :
          /\ db.user_events[i].user_id = 2
          /\ db.user_events[i].event_id = resp.req.event_id
          /\ db.user_events[i].registration_time = 1
          /\ db.user_events[i].checkin_time = 2

CheckOps == {"checkin_to_event", "checkout_from_event"}

(* a request made by the user it is for, or by an administrator *)
ByOwnerOrAdmin(r) ==
    /\ r.token # NoCredential
    /\ IsAdmin(r.token) \/ Subject(r) = r.token

(* C13: a check-in or check-out for (u, e), made by u or by an
   administrator, ends in NotFound and changes no row when the store holds
   no registration of (u, e) with is_active = true, be it that the pair has
   no registration or that its registration has is_active = false *)
C13_NoActiveRegistrationNotFound ==
    [][(/\ resp'.op \in CheckOps
        /\ ByOwnerOrAdmin(resp')
        /\ ActiveRegistrations(db, Subject(resp'), resp'.req.event_id) = <<>>)
          => resp'.status = NotFound /\ db' = db
      ]_vars

(* a check-out of a pair whose only registration has is_active = false has
   ended in NotFound, and the registration holds no checkout_time *)
C13_Witness ==
    /\ resp.op = "checkout_from_event" /\ resp.status = NotFound
    /\ LET rs == Registrations(db, Subject(resp), resp.req.event_id) IN
       /\ Len(rs) = 1
       /\ rs[1].is_active = False
       /\ rs[1].checkout_time = None

(* C14: a successful check-out changes the checkout_time of the active
   registration it matched and nothing else: the row keeps is_active = true
   and its checkin_time, user_id, event_id and registration_time, the other
   registrations are as they were, and so is every other table *)
C14_CheckoutFrame ==
    [][(resp'.op = "checkout_from_event" /\ resp'.status = OK)
          => LET matched == ActiveRegistrations(db, Subject(resp'), resp'.req.event_id)
                 old == Head(matched)
                 new == RowById(db', "user_events", old.id)
             IN  /\ matched # <<>>
                 /\ new.checkout_time = now'
                 /\ new.is_active = True
                 /\ \A f \in DOMAIN old \ {"checkout_time"} : new[f] = old[f]
                 /\ Len(db'.user_events) = Len(db.user_events)
                 /\ \A i \in DOMAIN db.user_events :
                       db.user_events[i].id # old.id
                         => db'.user_events[i] = db.user_events[i]
                 /\ \A u \in TableNames \ {"user_events"} : db'[u] = db[u]
      ]_vars

(* user 2, checked in at time 1, has been checked out at time 2 while user 3
   holds a registration too: user 2's row is active and keeps its
   checkin_time, and user 3's row holds no checkout_time *)
C14_Witness ==
    /\ resp.op = "checkout_from_event" /\ resp.status = OK
    /\ Subject(resp) = 2 /\ now = 2
    /\ \E i, j \in DOMAIN db.user_events :
          /\ db.user_events[i].user_id = 2
          /\ db.user_events[i].is_active = True
          /\ db.user_events[i].checkin_time = 1
          /\ db.user_events[i].checkout_time = 2
          /\ db.user_events[j].user_id = 3
          /\ db.user_events[j].checkout_time = None

(* C15: once the administrator has created event E and user U has
   registered for E, checked in and checked out, a GET of the registrations
   path of the events router by U succeeds and returns U's registration for
   E, with checkin_time and checkout_time not null and is_active = true *)
C15_JourneyReadBack ==
    [][(/\ resp'.op = "GET /api/v1/events"
        /\ resp'.req.path = <<"registrations">>
        /\ \E i \in DOMAIN db.user_events :
              /\ db.user_events[i].user_id = resp'.token
              /\ db.user_events[i].is_active = True
              /\ db.user_events[i].checkin_time # None
              /\ db.user_events[i].checkout_time # None)
          => /\ resp'.status = OK
             /\ \E j \in DOMAIN resp'.body :
                   /\ resp'.body[j].user_id = resp'.token
                   /\ resp'.body[j].is_active = True
                   /\ resp'.body[j].checkin_time # None
                   /\ resp'.body[j].checkout_time # None
      ]_vars

(* C16: check-in and check-out are not ordered.  A check-out of an active
   registration whose checkin_time is null, by its user or an
   administrator, succeeds and sets checkout_time, and checkin_time stays
   null; a check-in of an active registration that holds a checkout_time
   succeeds and sets checkin_time, and checkout_time stays as it was *)
C16_NoTransitionGuard ==
    [][(/\ resp'.op \in CheckOps
        /\ ByOwnerOrAdmin(resp')
        /\ ActiveRegistrations(db, Subject(resp'), resp'.req.event_id) # <<>>)
          => LET old == Head(ActiveRegistrations(db, Subject(resp'), resp'.req.event_id))
                 new == RowById(db', "user_events", old.id)
             IN  /\ (resp'.op = "checkout_from_event" /\ old.checkin_time = None)
                       => /\ resp'.status = OK
                          /\ new.checkout_time = now'
                          /\ new.checkin_time = None
                 /\ (resp'.op = "checkin_to_event" /\ old.checkout_time # None)
                       => /\ resp'.status = OK
                          /\ new.checkin_time = now'
                          /\ new.checkout_time = old.checkout_time
      ]_vars

(* the store holds a registration with a checkout_time and no checkin_time,
   and another one, just checked in, whose checkin_time is later than its
   checkout_time *)
C16_Witness ==
    /\ resp.op = "checkin_to_event" /\ resp.status = OK
    /\ \E i, j \in DOMAIN db.user_events :
          /\ db.user_events[i].checkout_time # None
          /\ db.user_events[i].checkin_time = None
          /\ db.user_events[j].checkout_time # None
          /\ db.user_events[j].checkin_time > db.user_events[j].checkout_time
          /\ db.user_events[j].user_id = Subject(resp)

(* the store d holds a row of table t with the given id *)
Exists(d, t, id) == \E i \in DOMAIN d[t] : d[t][i].id = id

(* C17: a register request of a non-administrator that names another user
   ends in Forbidden when the user and the event it names exist, and in
   NotFound when one of them does not, and creates no registration either
   way; so a register request succeeds only for the caller's own user_id or
   for an administrator *)
C17_RegisterOnlySelf ==
    [][(resp'.op = "register_for_event" /\ resp'.token # NoCredential)
          => /\ (NonAdmin(resp'.token) /\ resp'.req.user_id # resp'.token)
                   => /\ db' = db
                      /\ resp'.status =
                            IF /\ Exists(db, "users", resp'.req.user_id)
                               /\ Exists(db, "events", resp'.req.event_id)
                            THEN Forbidden ELSE NotFound
             /\ resp'.status = OK
                   => IsAdmin(resp'.token) \/ resp'.req.user_id = resp'.token
      ]_vars

(* user 2 has asked to register user 3, who exists, for an event that
   exists, and was refused; user 3 has no registration *)
C17_Witness ==
    /\ resp.op = "register_for_event" /\ resp.status = Forbidden
    /\ resp.token = 2 /\ resp.req.user_id = 3
    /\ Exists(db, "events", resp.req.event_id)
    /\ Registrations(db, 3, resp.req.event_id) = <<>>

(* C18: a check-in or check-out of a non-administrator that supplies the
   user_id of another user ends in Forbidden and leaves the store as it
   was, whether the pair has a registration or not; and a check-in or
   check-out without user_id leaves the registrations of all users other
   than the caller as they were and, when it succeeds, returns a
   registration of the caller *)
C18_CheckOnlySelf ==
    [][(resp'.op \in CheckOps /\ resp'.token # NoCredential)
          => /\ (/\ NonAdmin(resp'.token)
                 /\ resp'.req.user_id \notin {None, resp'.token})
                   => resp'.status = Forbidden /\ db' = db
             /\ resp'.req.user_id = None
                   => /\ Len(db'.user_events) = Len(db.user_events)
                      /\ \A i \in DOMAIN db.user_events :
                            db.user_events[i].user_id # resp'.token
                              => db'.user_events[i] = db.user_events[i]
                      /\ resp'.status = OK
                            => /\ resp'.body[1].user_id = resp'.token
                               /\ resp'.body[1].event_id = resp'.req.event_id
      ]_vars

(* user 2 has asked to check user 3 in and was refused, with user 3 holding
   an active registration for the event, which has no checkin_time *)
C18_Witness ==
    /\ resp.op = "checkin_to_event" /\ resp.status = Forbidden
    /\ resp.token = 2 /\ resp.req.user_id = 3
    /\ LET rs == ActiveRegistrations(db, 3, resp.req.event_id) IN
       rs # <<>> /\ rs[1].checkin_time = None

(* no two devices of the store d have the same device_id *)
UniqueDeviceIds(d) ==
    \A i, j \in DOMAIN d.biometric_devices :
        d.biometric_devices[i].device_id = d.biometric_devices[j].device_id
          => i = j

(* C19: a create request of an administrator for a device_id that a device
   of the store has ends in Conflict and adds no row; and after every device
   create, update or delete request, handled one at a time, no two devices
   have the same device_id, an update leaving device_id as it was *)
C19_DeviceIdUnique ==
    [][/\ (/\ resp'.op = "create_biometric_device"
           /\ IsAdmin(resp'.token)
           /\ \E i \in DOMAIN db.biometric_devices :
                 db.biometric_devices[i].device_id = resp'.req.device_id)
             => resp'.status = Conflict /\ db' = db
       /\ (resp'.op = "update_biometric_device" /\ resp'.status = OK)
             => /\ Len(db'.biometric_devices) = Len(db.biometric_devices)
                /\ \A i \in DOMAIN db.biometric_devices :
                      db'.biometric_devices[i].device_id
                        = db.biometric_devices[i].device_id
       /\ UniqueDeviceIds(db')
      ]_vars

(* the administrator has asked to create a device with the device_id of a
   device that was updated before, next to a second device, and was refused:
   the store holds the two devices *)
C19_Witness ==
    /\ resp.op = "create_biometric_device" /\ resp.status = Conflict
    /\ Len(db.biometric_devices) = 2
    /\ \E i \in DOMAIN db.biometric_devices :
          /\ db.biometric_devices[i].device_id = resp.req.device_id
          /\ db.biometric_devices[i].last_connection # None

(* L[min(floor(5 * energy_level), 4)], with L the five labels in order *)
Label(energy_level) ==
    emotional_states[Min((5 * energy_level) \div Scale, 4) + 1]

Labels == {emotional_states[i] : i \in DOMAIN emotional_states}

(* C20 as stated: for every energy_level of the closed interval [0, 1] the
   emotional_state is L[min(floor(5 * energy_level), 4)], one of the five
   labels; 1.0 is mapped to the last label and nothing fails *)
C20_ClampedOnClosedInterval ==
    /\ resp.op = "emotional_state"
          => /\ resp.status = OK
             /\ resp.body = <<Label(resp.req.energy_level)>>
    /\ \A i \in DOMAIN db.biometric_data :
          db.biometric_data[i].emotional_state
            = Label(db.biometric_data[i].energy_level)

(* C20 amended: for every energy_level of the half-open interval [0, 1),
   where the simulation draws it, the emotional_state is
   L[floor(5 * energy_level)], one of the five labels and the last one from
   0.8 on; the mapping is not clamped, and applied to 1.0 it fails with an
   index out of range *)
C20_LabelOnHalfOpenInterval ==
    /\ resp.op = "emotional_state"
          => IF resp.req.energy_level < Scale
             THEN /\ resp.status = OK
                  /\ resp.body = <<Label(resp.req.energy_level)>>
                  /\ resp.body[1] \in Labels
             ELSE /\ resp.status = InternalServerError
                  /\ resp.body = <<IndexError>>
    /\ \A i \in DOMAIN db.biometric_data :
          /\ db.biometric_data[i].energy_level < Scale
          /\ db.biometric_data[i].emotional_state
                = Label(db.biometric_data[i].energy_level)
          /\ db.biometric_data[i].emotional_state \in Labels

(* the energy_level of a simulated row, 0.99, has just been mapped: the
   label is the last of the list, and the row holds it *)
C20_Witness ==
    /\ resp.op = "emotional_state" /\ resp.status = OK
    /\ resp.req.energy_level = Scale - 1
    /\ resp.body = <<emotional_states[Len(emotional_states)]>>
    /\ \E i \in DOMAIN db.biometric_data :
          /\ db.biometric_data[i].energy_level = Scale - 1
          /\ db.biometric_data[i].emotional_state = resp.body[1]

(* the delete endpoints, the get-by-key endpoints and the list endpoints,
   each with its table *)
DeleteTable ==
    [delete_event |-> "events",
     delete_event_registration |-> "user_events",
     delete_biometric_data |-> "biometric_data",
     delete_biometric_device |-> "biometric_devices",
     delete_movement_data |-> "movement_data",
     delete_movement_pattern |-> "movement_patterns",
     delete_sound_event |-> "sound_events",
     delete_song_selection |-> "song_selections",
     delete_sound_preset |-> "sound_presets",
     delete_visualization_event |-> "visualization_events",
     delete_visualization_preset |-> "visualization_presets"]

GetTable ==
    [read_event |-> "events",
     read_biometric_data_by_id |-> "biometric_data",
     read_biometric_device |-> "biometric_devices",
     read_movement_data_by_id |-> "movement_data",
     read_movement_pattern |-> "movement_patterns",
     read_sound_event |-> "sound_events",
     read_song_selection |-> "song_selections",
     read_sound_preset |-> "sound_presets",
     read_visualization_event |-> "visualization_events",
     read_visualization_preset |-> "visualization_presets"]

ListTable ==
    [read_events |-> "events",
     read_event_registrations |-> "user_events",
     read_biometric_data |-> "biometric_data",
     read_biometric_devices |-> "biometric_devices",
     read_movement_data |-> "movement_data",
     read_movement_patterns |-> "movement_patterns",
     read_detected_patterns |-> "detected_patterns",
     read_sound_events |-> "sound_events",
     read_song_selections |-> "song_selections",
     read_sound_presets |-> "sound_presets",
     read_visualization_events |-> "visualization_events",
     read_visualization_presets |-> "visualization_presets"]

ByKeyTable == DeleteTable @@ GetTable

(* the column a get or delete request names its row by, and the value *)
KeyField(req) == IF "device_id" \in DOMAIN req THEN "device_id" ELSE "id"

KeyValue(req) == req[KeyField(req)]

(* the store d holds the row that the request names in table t *)
Present(d, t, req) ==
    \E i \in DOMAIN d[t] : d[t][i][KeyField(req)] = KeyValue(req)

(* C21: a successful delete removes the row it names from its table and
   keeps the other rows of the table, so that no row is merely flagged; a
   get or a delete of a row that the store does not hold never succeeds and
   ends in NotFound for an administrator; and a list returns only rows that
   the store holds *)
C21_DeleteRemovesRow ==
    [][/\ (resp'.op \in DOMAIN DeleteTable /\ resp'.status = NoContent)
             => LET t == DeleteTable[resp'.op] IN
                /\ Present(db, t, resp'.req)
                /\ ~Present(db', t, resp'.req)
                /\ db'[t] = SelectSeq(db[t], LAMBDA r : r[KeyField(resp'.req)] # KeyValue(resp'.req))
       /\ (/\ resp'.op \in DOMAIN ByKeyTable
           /\ ~Present(db, ByKeyTable[resp'.op], resp'.req))
             => /\ resp'.status \in Errors
                /\ IsAdmin(resp'.token) => resp'.status = NotFound
       /\ (resp'.op \in DOMAIN ListTable /\ resp'.status = OK)
             => \A j \in DOMAIN resp'.body :
                   \E i \in DOMAIN db[ListTable[resp'.op]] :
                       db[ListTable[resp'.op]][i] = resp'.body[j]
      ]_vars

(* user 2 has deleted their registration, the last one of the store: the
   table is empty, while the event registered for is still there *)
C21_Witness ==
    /\ resp.op = "delete_event_registration" /\ resp.status = NoContent
    /\ resp.token = 2
    /\ db.user_events = <<>>
    /\ db.events # <<>>

(***************************************************************************)
(* Authentication: login and a protected endpoint.                         *)
(***************************************************************************)
Usernames == {"admin", "ada", "bo", "eve"}
Passwords == {"admin123", "ada-secret", "wrongpassword"}

Login ==
    /\ resp = Idle
    /\ \E username \in Usernames, password \in Passwords :
           Handle("login", NoCredential,
                  [username |-> username, password |-> password],
                  login(db, username, password), now)

ReadUsersMe ==
    /\ resp = Idle
    /\ \E token \in Tokens :
           Handle("read_users_me", token, [id |-> token],
                  read_users_me(db, token), now)

AuthNext ==
    \/ Close
    \/ Login
    \/ ReadUsersMe
    \/ CreateEvent
    \/ ReadEvents
    \/ ReadEvent
    \/ UpdateEvent
    \/ DeleteEvent

SpecAuth == Init /\ [][AuthNext]_vars

(* the user a username and password belong to, as a sequence of at most one row *)
Holder(d, username, password) ==
    SelectSeq(d.users, LAMBDA r : /\ r.username = username
                                  /\ r.hashed_password = get_password_hash(password))

ProtectedOps ==
    {"read_users_me", "read_events", "read_event", "create_event",
     "update_event", "delete_event"}

(* C22: access is granted exactly on a valid credential.  A login answers
   OK with a bearer token for user U exactly when the username and password
   are U's, and Unauthorized with no token otherwise; a request without a
   credential to a protected endpoint answers Unauthorized; neither changes
   the store.  A token issued to U, presented to a protected endpoint,
   resolves to U's row with U's own is_admin flag: /users/me returns that row
   and the admin-only create_event succeeds exactly when the flag is true. *)
C22_AccessOnValidCredential ==
    [][/\ resp'.op = "login"
            => LET u == Holder(db, resp'.req.username, resp'.req.password) IN
               /\ db' = db
               /\ IF u = <<>>
                  THEN resp'.status = Unauthorized /\ resp'.body = <<>>
                  ELSE /\ resp'.status = OK
                       /\ resp'.body = <<[access_token |-> Head(u).id,
                                          token_type |-> "bearer"]>>
                       /\ read_users_me(db, resp'.body[1].access_token).body = u
       /\ (resp'.op \in ProtectedOps /\ resp'.token = NoCredential)
            => resp'.status = Unauthorized /\ resp'.body = <<>> /\ db' = db
       /\ (resp'.op = "read_users_me" /\ resp'.token # NoCredential)
            => /\ resp'.status = OK
               /\ resp'.body = SelectSeq(db.users, LAMBDA r : r.id = resp'.token)
               /\ Len(resp'.body) = 1
               /\ resp'.body[1].is_admin = IF IsAdmin(resp'.token) THEN True ELSE False
       /\ (resp'.op = "create_event" /\ resp'.token # NoCredential)
            => resp'.status = IF RowById(db, "users", resp'.token).is_admin = True
                              THEN OK ELSE Forbidden
      ]_vars

C22_Witness ==
    /\ resp.op = "login"
    /\ resp.req = [username |-> "ada", password |-> "ada-secret"]
    /\ resp.status = OK
    /\ resp.body[1].access_token = 2
    /\ db.events # <<>>

C22_WrongPassword ==
    /\ resp.op = "login"
    /\ resp.req = [username |-> "admin", password |-> "wrongpassword"]
    /\ resp.status = Unauthorized
(* C23: in the events router a GET of /registrations is dispatched to
   read_event_registrations and answers as that handler does, with the
   caller's registrations, and a GET of /upcoming is dispatched to
   read_upcoming_events and answers as that handler does; neither is taken
   by the route /{event_id} of read_event *)
C23_LiteralRoutesDispatched ==
    [][resp'.op = "GET /api/v1/events"
         => /\ resp'.req.path = <<"registrations">>
                 => /\ RouteOf(EventRoutes, "GET", resp'.req.path)
                          = "read_event_registrations"
                    /\ resp'.status
                          = read_event_registrations(db, resp'.token, None, None,
                                                     None, 0, DefaultLimit).status
                    /\ resp'.body
                          = read_event_registrations(db, resp'.token, None, None,
                                                     None, 0, DefaultLimit).body
            /\ resp'.req.path = <<"upcoming">>
                 => /\ RouteOf(EventRoutes, "GET", resp'.req.path)
                          = "read_upcoming_events"
                    /\ resp'.status
                          = read_upcoming_events(db, resp'.token,
                                                 resp'.req.window).status
                    /\ resp'.body
                          = read_upcoming_events(db, resp'.token,
                                                 resp'.req.window).body
      ]_vars

(* the half of C23 that the declaration order gives: /upcoming, declared
   before /{event_id}, reaches read_upcoming_events *)
C23_UpcomingDispatched ==
    [][(resp'.op = "GET /api/v1/events" /\ resp'.req.path = <<"upcoming">>)
         => /\ RouteOf(EventRoutes, "GET", resp'.req.path) = "read_upcoming_events"
            /\ resp'.status
                  = read_upcoming_events(db, resp'.token, resp'.req.window).status
            /\ resp'.body
                  = read_upcoming_events(db, resp'.token, resp'.req.window).body
      ]_vars

(* /registrations, declared after /{event_id}, is taken by read_event and
   fails the validation of event_id *)
C23_RegistrationsCaptured ==
    /\ resp.op = "GET /api/v1/events"
    /\ resp.req.path = <<"registrations">>
    /\ resp.token = 2
    /\ resp.status = UnprocessableEntity
    /\ \E i \in DOMAIN db.user_events : db.user_events[i].user_id = 2
(***************************************************************************)
(* Start-up: run.py calls init_db before the server starts, on the store   *)
(* that earlier runs have left.                                            *)
(***************************************************************************)
InitDb ==
    /\ resp = Idle
    /\ Handle("init_db", NoCredential, [users |-> Len(db.users)],
              init_db(db), now)

(* the users table that earlier runs may have left: none yet; the initial
   admin alone or with a registered user; a registered user alone or one
   made an administrator, the initial admin having been removed; the initial
   admin without its flag *)
StartingUsers ==
    { <<>>,
      <<User(1, "admin", "admin123", True)>>,
      <<User(1, "admin", "admin123", True), User(2, "ada", "ada-secret", False)>>,
      <<User(2, "ada", "ada-secret", False)>>,
      <<User(2, "ada", "ada-secret", True)>>,
      <<User(1, "admin", "admin123", False), User(2, "ada", "ada-secret", False)>> }

StartInit ==
    /\ \E users \in StartingUsers :
          db = [t \in TableNames |-> IF t = "users" THEN users ELSE <<>>]
    /\ resp = Idle
    /\ now = 1
    /\ inflight = [p \in Procs |-> NoRequest]

StartNext ==
    \/ Close
    \/ InitDb
    \/ Login
    \/ ReadUsersMe
    \/ CreateEvent
    \/ UpdateEvent
    \/ DeleteEvent

SpecStart == StartInit /\ [][StartNext]_vars

Admins(d) == SelectSeq(d.users, LAMBDA r : r.is_admin = True)
NamedAdmin(d) == SelectSeq(d.users, LAMBDA r : r.username = "admin")

(* C24: init_db creates the initial admin exactly when no user has
   is_admin = true: a run on a store with an administrator completes and
   changes nothing; a run that completes on a store without one appends the
   user admin with is_admin = true and changes nothing else; after a run
   that completes an administrator exists; and no run, the first or a later
   one, leaves more than one user named admin *)
C24_InitialAdminOnce ==
    [][resp'.op = "init_db"
         => /\ Admins(db) # <<>> => (resp'.status = OK /\ db' = db)
            /\ (Admins(db) = <<>> /\ resp'.status = OK)
                 => /\ Len(db'.users) = Len(db.users) + 1
                    /\ SubSeq(db'.users, 1, Len(db.users)) = db.users
                    /\ db'.users[Len(db'.users)].username = "admin"
                    /\ db'.users[Len(db'.users)].is_admin = True
                    /\ \A t \in TableNames \ {"users"} : db'[t] = db[t]
            /\ resp'.status = OK => Admins(db') # <<>>
            /\ resp'.status # OK => db' = db
            /\ Len(NamedAdmin(db')) <= 1
            /\ Len(NamedAdmin(db)) = 1 => NamedAdmin(db') = NamedAdmin(db)
      ]_vars

(* a run of init_db on a store whose administrator has already created an
   event: the initial admin is still the only user named admin *)
C24_Witness ==
    /\ resp.op = "init_db"
    /\ resp.status = OK
    /\ db.events # <<>>
    /\ Len(NamedAdmin(db)) = 1
    /\ Len(Admins(db)) = 1

(* the first run on an empty store creates the initial admin *)
C24_FirstRun ==
    /\ resp.op = "init_db"
    /\ resp.req.users = 0
    /\ resp.status = OK
    /\ Len(db.users) = 1
    /\ db.users[1].username = "admin"
    /\ db.users[1].is_admin = True
(* at most one registration row, active or not, per (user_id, event_id) *)
OneRowPerPair(d) ==
    \A i, j \in DOMAIN d.user_events :
        (/\ d.user_events[i].user_id = d.user_events[j].user_id
         /\ d.user_events[i].event_id = d.user_events[j].event_id
         /\ d.user_events[i].event_id # None) => i = j

(* C25: a register request for (u, e) made while any registration row of
   (u, e) exists, active or not, is rejected and changes nothing (with Bad
   Request once the caller, the user and the event have passed their
   checks); a register request that succeeds found no row of the pair and
   adds exactly one; so, with one request handled at a time, every pair has
   at most one row in every state, and a pair whose row was deactivated is
   registered again only once that row is gone *)
C25_OneRegistrationPerPair ==
    [][/\ (/\ resp'.op = "register_for_event"
           /\ Registrations(db, resp'.req.user_id, resp'.req.event_id) # <<>>)
            => /\ resp'.status \in Errors
               /\ db' = db
               /\ ByOwnerOrAdmin(resp') => resp'.status = BadRequest
       /\ (resp'.op = "register_for_event" /\ resp'.status = OK)
            => /\ Registrations(db, resp'.req.user_id, resp'.req.event_id) = <<>>
               /\ Len(Registrations(db', resp'.req.user_id, resp'.req.event_id)) = 1
       /\ OneRowPerPair(db) /\ OneRowPerPair(db')
      ]_vars

(* user 2, whose registration for event 1 has been deactivated, asks to
   register for event 1 again and is refused *)
C25_Witness ==
    /\ resp.op = "register_for_event"
    /\ resp.token = 2
    /\ resp.req.user_id = 2
    /\ resp.status = BadRequest
    /\ Len(Registrations(db, 2, resp.req.event_id)) = 1
    /\ Registrations(db, 2, resp.req.event_id)[1].is_active = False
    /\ Len(db.user_events) = 2
(* the update and delete endpoints that depend on get_current_admin_user,
   with the table of their target *)
AdminOnlyById ==
    [update_event |-> "events",
     delete_event |-> "events",
     update_biometric_device |-> "biometric_devices",
     delete_biometric_device |-> "biometric_devices",
     update_movement_pattern |-> "movement_patterns",
     delete_movement_pattern |-> "movement_patterns",
     update_sound_preset |-> "sound_presets",
     delete_sound_preset |-> "sound_presets",
     update_visualization_preset |-> "visualization_presets",
     delete_visualization_preset |-> "visualization_presets",
     delete_movement_data |-> "movement_data",
     delete_sound_event |-> "sound_events",
     delete_visualization_event |-> "visualization_events"]

(* the update and delete endpoints of the user-scoped resources *)
UserScopedById ==
    [update_event_registration |-> "user_events",
     delete_event_registration |-> "user_events",
     update_biometric_data |-> "biometric_data",
     delete_biometric_data |-> "biometric_data",
     update_song_selection |-> "song_selections",
     delete_song_selection |-> "song_selections"]

(* C26: in an admin-only update or delete the role check precedes the
   existence check: a caller with is_admin = false receives Forbidden, and
   the store is unchanged, whether or not the target exists; NotFound is
   received only by an administrator and exactly when the target does not
   exist.  In an update or delete of a user-scoped resource the order is the
   opposite: a caller with is_admin = false that names a row that does not
   exist receives NotFound *)
C26_RoleBeforeExistence ==
    [][/\ resp'.op \in DOMAIN AdminOnlyById
            => LET present == Present(db, AdminOnlyById[resp'.op], resp'.req) IN
               /\ NonAdmin(resp'.token)
                    => resp'.status = Forbidden /\ db' = db
               /\ resp'.status = NotFound
                    => IsAdmin(resp'.token) /\ ~present
               /\ (IsAdmin(resp'.token) /\ ~present)
                    => resp'.status = NotFound /\ db' = db
       /\ (/\ resp'.op \in DOMAIN UserScopedById
           /\ NonAdmin(resp'.token)
           /\ ~Present(db, UserScopedById[resp'.op], resp'.req))
            => resp'.status = NotFound
      ]_vars

(* user 2, not an administrator, is refused the update of an event that does
   not exist while another event does *)
C26_Witness ==
    /\ resp.op = "update_event"
    /\ resp.token = 2
    /\ resp.status = Forbidden
    /\ db.events # <<>>
    /\ ~Present(db, "events", resp.req)

(* the same caller is refused the delete of an event that exists *)
C26_ForbiddenOnExisting ==
    /\ resp.op = "delete_event"
    /\ resp.token = 2
    /\ resp.status = Forbidden
    /\ Present(db, "events", resp.req)
(***************************************************************************)
(* The device endpoints and the endpoints that take a device_id.           *)
(***************************************************************************)
ConnectionNext ==
    \/ Close
    \/ CreateEvent
    \/ CreateBiometricDevice(MaxRows)
    \/ ReadBiometricDevices
    \/ ReadBiometricDevice
    \/ UpdateBiometricDevice
    \/ DeleteBiometricDevice
    \/ CreateBiometricData(AllRows)
    \/ SimulateBiometricData(AllRows)

SpecConnection == Init /\ [][ConnectionNext]_vars

DeviceById(d, device_id) ==
    Head(SelectSeq(d.biometric_devices, LAMBDA r : r.device_id = device_id))

(* a successful device update has set last_connection to the time of the
   request, has written the fields of the payload, has kept the other fields
   outside the set exempt, and has kept the other devices and tables *)
DeviceUpdated(r, d, d2, t, exempt) ==
    LET old == DeviceById(d, r.req.device_id)
        new == DeviceById(d2, r.req.device_id)
    IN  /\ Len(SelectSeq(d2.biometric_devices,
                         LAMBDA x : x.device_id = r.req.device_id)) = 1
        /\ new.last_connection = t
        /\ new.device_id = old.device_id
        /\ \A f \in DOMAIN old \ ({"last_connection"} \cup exempt) :
              new[f] = IF f \in DOMAIN r.req.payload THEN r.req.payload[f]
                       ELSE old[f]
        /\ Len(d2.biometric_devices) = Len(d.biometric_devices)
        /\ \A i \in DOMAIN d.biometric_devices :
              d.biometric_devices[i].device_id # r.req.device_id
                  => d2.biometric_devices[i] = d.biometric_devices[i]
        /\ \A u \in TableNames \ {"biometric_devices"} : d2[u] = d[u]

(* no request other than a device update changes last_connection: a device
   that is kept keeps it, and a device that is new has none *)
LastConnectionKept(d, d2) ==
    \A j \in DOMAIN d2.biometric_devices :
        LET new == d2.biometric_devices[j]
            old == SelectSeq(d.biometric_devices, LAMBDA x : x.id = new.id)
        IN  new.last_connection = IF old = <<>> THEN None
                                  ELSE Head(old).last_connection

(* C27 as stated: every successful device update, one with an empty payload
   included, sets last_connection to the current time and writes the fields
   of the payload, leaving device_id and every other absent field unchanged;
   no other operation changes last_connection, which is null on a new
   device *)
C27_OnlyLastConnectionBesidesPayload ==
    [][IF resp'.op = "update_biometric_device"
       THEN resp'.status = OK => DeviceUpdated(resp', db, db', now', {})
       ELSE resp' # Idle => LastConnectionKept(db, db')
      ]_vars

(* C27 amended: as above, except that the update also sets updated_at, the
   column the store maintains on every UPDATE, to the current time *)
C27_LastConnectionOnEveryUpdate ==
    [][IF resp'.op = "update_biometric_device"
       THEN resp'.status = OK
              => /\ DeviceUpdated(resp', db, db', now', StoreFields)
                 /\ DeviceById(db', resp'.req.device_id).updated_at = now'
       ELSE resp' # Idle => LastConnectionKept(db, db')
      ]_vars

(* an update with an empty payload has set last_connection of a device that
   had none, and the other device still has none *)
C27_Witness ==
    /\ resp.op = "update_biometric_device"
    /\ resp.status = OK
    /\ DOMAIN resp.req.payload = {}
    /\ Len(db.biometric_devices) = 2
    /\ DeviceById(db, resp.req.device_id).last_connection = now
    /\ \E i \in DOMAIN db.biometric_devices :
          db.biometric_devices[i].last_connection = None
(***************************************************************************)
(* create_biometric_device, interleaved: a process runs the dependency and *)
(* the query of lines 171-173 in one step and the insert and commit of     *)
(* lines 175-179 in a later one.                                           *)
(***************************************************************************)
CreateBiometricDeviceCheck(p) ==
    /\ resp = Idle
    /\ inflight[p] = NoRequest
    /\ \E token \in Tokens, dev \in DeviceIdInputs :
           LET device == [device_id |-> dev, device_type |-> 1,
                          is_active |-> True]
               auth == get_current_admin_user(db, token)
               existing_device ==
                   SelectSeq(db.biometric_devices,
                             LAMBDA r : r.device_id = device.device_id)
               checked == IF auth.status # OK THEN auth.status
                          ELSE IF existing_device # <<>> THEN Conflict
                          ELSE OK
           IN  IF checked # OK
               THEN /\ resp' = [op |-> "create_biometric_device",
                                token |-> token, req |-> device,
                                status |-> checked, body |-> <<>>]
                    /\ UNCHANGED inflight
               ELSE /\ NextId(db.biometric_devices) + Cardinality(Pending)
                         <= MaxRows
                    /\ inflight' = [inflight EXCEPT ![p] =
                                        [pc |-> "insert", token |-> token,
                                         device |-> device]]
                    /\ UNCHANGED resp
    /\ UNCHANGED <<db, now>>

CreateBiometricDeviceInsert(p) ==
    /\ resp = Idle
    /\ inflight[p] # NoRequest
    /\ LET r == insert_biometric_device(db, inflight[p].device) IN
       /\ db' = r.db
       /\ resp' = [op |-> "create_biometric_device", token |-> inflight[p].token,
                   req |-> inflight[p].device, status |-> r.status,
                   body |-> r.body]
    /\ inflight' = [inflight EXCEPT ![p] = NoRequest]
    /\ UNCHANGED now

DeviceRaceNext ==
    \/ Close
    \/ \E p \in Procs : CreateBiometricDeviceCheck(p)
    \/ \E p \in Procs : CreateBiometricDeviceInsert(p)
    \/ ReadBiometricDevices
    \/ DeleteBiometricDevice

SpecDeviceRace == Init /\ [][DeviceRaceNext]_vars

DevicesWith(d, device_id) ==
    SelectSeq(d.biometric_devices, LAMBDA r : r.device_id = device_id)

(* C28: when create-device requests with one device_id are interleaved so
   that each runs its check before any inserts, the store never holds two
   devices with that device_id: a request whose insert finds the device_id
   taken fails with an internal server error and leaves the store exactly as
   it was, and a request that succeeds found the device_id free and added
   one row *)
C28_OneDevicePerIdUnderRace ==
    [][/\ resp'.op = "create_biometric_device"
            => LET held == DevicesWith(db, resp'.req.device_id) IN
               /\ resp'.status = OK
                    => /\ held = <<>>
                       /\ Len(db'.biometric_devices) = Len(db.biometric_devices) + 1
                       /\ Len(DevicesWith(db', resp'.req.device_id)) = 1
               /\ resp'.status # OK => db' = db
               /\ held # <<>> => resp'.status # OK
               /\ (inflight' # inflight /\ held # <<>>)
                    => resp'.status = InternalServerError
       /\ \A dev \in DeviceIdInputs : Len(DevicesWith(db', dev)) <= 1
      ]_vars

(* the second of two interleaved requests for device_id 1 has been refused
   by the constraint: one device with device_id 1 is in the store *)
C28_Witness ==
    /\ resp.op = "create_biometric_device"
    /\ resp.req.device_id = 1
    /\ resp.status = InternalServerError
    /\ Len(DevicesWith(db, 1)) = 1
    /\ Len(db.biometric_devices) = 1
    /\ Pending = {}
(* the foreign keys of row r for which the store d holds no row *)
Dangling(d, r) ==
    {f \in DOMAIN r \cap DOMAIN RefTable :
        r[f] # None /\ ~Exists(d, RefTable[f], r[f])}

(* C29: in every reachable state every registration, biometric-data row,
   song selection, movement-data row, sound event, visualization event and
   detected pattern references an event that the store holds, and every user,
   movement pattern or movement-data row it references is held as well *)
C29_ReferentialIntegrity ==
    \A t \in EventChildren :
        \A i \in DOMAIN db[t] :
            /\ db[t][i].event_id # None
            /\ Dangling(db, db[t][i]) = {}

(* the half of C29 that holds: a successful delete of an event, movement
   pattern or movement-data row leaves no row whose foreign key still holds
   the deleted id *)
C29_NoReferenceToDeleted ==
    [][(/\ resp'.op \in {"delete_event", "delete_movement_pattern",
                         "delete_movement_data"}
        /\ resp'.status = NoContent)
          => LET parent == DeleteTable[resp'.op] IN
             \A t \in EventChildren :
                 \A i \in DOMAIN db'[t] :
                     \A f \in DOMAIN db'[t][i] \cap DOMAIN RefTable :
                         RefTable[f] = parent => db'[t][i][f] # resp'.req.id
      ]_vars

(* the event of a registration has been deleted: the registration of user 2
   is still in the store and references no event *)
C29_OrphanRegistration ==
    /\ resp.op = "delete_event"
    /\ resp.status = NoContent
    /\ db.events = <<>>
    /\ \E i \in DOMAIN db.user_events :
          /\ db.user_events[i].user_id = 2
          /\ db.user_events[i].event_id = None
(* the endpoints that create a biometric-data row or a song selection *)
OwnedRowCreates ==
    {"create_biometric_data", "simulate_biometric_data", "create_song_selection"}

(* C30: a biometric-data row or song selection created, through create or
   simulate, by a caller with is_admin = false carries the caller's id as
   user_id: such a caller never creates a row owned by another user *)
C30_CreatedRowsOwnedByCaller ==
    [][(/\ resp'.op \in OwnedRowCreates
        /\ resp'.status = OK
        /\ NonAdmin(resp'.token))
          => /\ Len(resp'.body) = 1
             /\ resp'.body[1].user_id = resp'.token
      ]_vars

(* user 2, not an administrator, has created a song selection owned by
   user 3 *)
C30_RowForAnotherUser ==
    /\ resp.op = "create_song_selection"
    /\ resp.token = 2
    /\ resp.status = OK
    /\ resp.body[1].user_id = 3
    /\ \E i \in DOMAIN db.song_selections : db.song_selections[i].user_id = 3
====
